---- MODULE Spec2Model ----
(***************************************************************************)
(* Message pickup v2 (V2MessagePickupProtocol over the PostgreSQL message  *)
(* repository of the mediator-cluster sample) and the issue-credential v2  *)
(* exchange-record state machine (V2DidCommCredentialProtocol).            *)
(*                                                                         *)
(* Three specifications share the module: PickupSpec drives the message    *)
(* holder's handlers and the queue, RecipientSpec the recipient's handlers,*)
(* CredSpec the credential protocol and the exchange record store.  Each   *)
(* leaves the other variables alone.                                       *)
(***************************************************************************)
EXTENDS Integers, Sequences, FiniteSets, TLC

VARIABLES
  queue,            \* rows of the MESSAGES table, oldest first
  nextUuid,         \* the uuid the next queued message gets
  liveSessions,     \* connections with a live delivery session
  last,             \* the last pickup operation: inputs, outcome, reply, events
  records,          \* the credential exchange records, by record id
  didcommMessages,  \* per record, the stored message of each class
  nextThread,       \* the thread id the next locally created exchange gets
  lastCred,         \* the last credential operation and its outcome
  processDidCommMessagesConcurrently,  \* the configuration option
  handlers,         \* inbound credential messages being handled
  pulls,            \* pickup messages being handled
  autoRespond,      \* the last auto-accept decision: inputs and result
  problemReport,    \* the problem report message returned last
  _endpoints,       \* DidCommModuleConfig's private _endpoints field
  assigned,         \* the endpoint lists configured and assigned, oldest first
  history           \* the rows ever queued, the ids the recipient was handed

pickupVars == <<queue, nextUuid, liveSessions, last>>
credVars == <<records, didcommMessages, nextThread, lastCred>>
quietVars == <<processDidCommMessagesConcurrently, handlers, pulls, autoRespond, problemReport, _endpoints, assigned>>
restVars == <<processDidCommMessagesConcurrently, handlers, pulls, autoRespond, problemReport, _endpoints, assigned, history>>
vars == <<queue, nextUuid, liveSessions, last,
          records, didcommMessages, nextThread, lastCred,
          processDidCommMessagesConcurrently, handlers, pulls, autoRespond, problemReport, _endpoints, assigned, history>>

----------------------------------------------------------------------------
(* Bounds of the model *)

MaxMessages == 2      \* messages ever added to the queue
MaxLimit == 2         \* a delivery request carries limit 0..MaxLimit
MaxIdList == 2        \* length of a messages-received id list
MaxCount == 3         \* a status message reports 0..MaxCount messages
MaxBatch == 2         \* configured maximumBatchSize ranges over 1..MaxBatch
MaxRecords == 2       \* exchange records in the store
MaxLocalThreads == 1  \* thread ids this agent generates
MaxRemoteThreads == 1 \* thread ids chosen by peers
MaxHandlers == 2      \* inbound messages handled at the same time

(* Program constants *)

DeliveryBatchLimit == 10   \* createDeliveryMessage: limit: 10

Connections == {"c1", "c2"}
PickupThreads == {"pt1", "pt2"}
NoKey == "undefined"
RecipientKeys == {NoKey, "k1"}
Uuids == 1..MaxMessages

Min(a, b) == IF a < b THEN a ELSE b
Range(s) == {s[i] : i \in 1..Len(s)}

RECURSIVE SeqsUpTo(_, _)
SeqsUpTo(S, n) ==
  IF n = 0 THEN {<<>>}
  ELSE LET shorter == SeqsUpTo(S, n - 1)
       IN shorter \cup {Append(s, x) : s \in {t \in shorter : Len(t) = n - 1}, x \in S}

IdLists == SeqsUpTo(Uuids, MaxIdList)

----------------------------------------------------------------------------
(* PostgreSQLMessageRepository *)

RowsOf(q, connectionId) == SelectSeq(q, LAMBDA r : r.connectionId = connectionId)
IdsOf(rows) == [i \in 1..Len(rows) |-> rows[i].id]

\* SELECT COUNT(*) FROM MESSAGES WHERE connection_id = ...  (recipientDid is not read)
asyncGetAvailableMessageCount(q, connectionId) == Len(RowsOf(q, connectionId))

\* Mutant: only the first id of the list is deleted.
asyncRemoveMessages_first(q, messageIds) ==
  [ok |-> Len(messageIds) > 0,
   queue |-> IF Len(messageIds) > 0
             THEN SelectSeq(q, LAMBDA r : r.id # messageIds[1])
             ELSE q]

\* DELETE FROM MESSAGES WHERE uuid IN ( ...ids... ): connectionId is not read.
\* With no id the statement is "IN (  )", which PostgreSQL rejects: the call throws.
asyncRemoveMessages(q, messageIds) ==
  [ok |-> Len(messageIds) > 0,
   queue |-> IF Len(messageIds) > 0
             THEN SelectSeq(q, LAMBDA r : r.id \notin Range(messageIds))
             ELSE q]

\* SELECT ... WHERE connection_id = c ORDER BY timestamp ASC LIMIT (limit ? limit : ALL),
\* then, unless keepMessages is truthy, removeMessages on the rows read.
\* keepMessages absent is keepMessages = FALSE here.
asyncTakeFromQueue(q, connectionId, limit, keepMessages) ==
  LET rows == RowsOf(q, connectionId)
      messages == IF limit # 0 THEN SubSeq(rows, 1, Min(limit, Len(rows))) ELSE rows
      removed == asyncRemoveMessages(q, IdsOf(messages))
  IN IF ~keepMessages
     THEN [ok |-> removed.ok, messages |-> messages, queue |-> removed.queue]
     ELSE [ok |-> TRUE, messages |-> messages, queue |-> q]

----------------------------------------------------------------------------
(* Messages of the pickup protocol and the record of the last operation *)

NoMessage ==
  [type |-> "none", threadId |-> "undefined", recipientKey |-> NoKey, messageCount |-> 0,
   attachments |-> <<>>, limit |-> 0, liveDelivery |-> FALSE, messageIdList |-> <<>>]

V2StatusMessage(threadId, recipientKey, messageCount, liveDelivery) ==
  [NoMessage EXCEPT !.type = "status", !.threadId = threadId, !.recipientKey = recipientKey,
                    !.messageCount = messageCount, !.liveDelivery = liveDelivery]

\* one attachment per message, attachment id = message id
V2MessageDeliveryMessage(threadId, recipientKey, messages) ==
  [NoMessage EXCEPT !.type = "delivery", !.threadId = threadId, !.recipientKey = recipientKey,
                    !.attachments = IdsOf(messages)]

V2DeliveryRequestMessage(limit, recipientKey) ==
  [NoMessage EXCEPT !.type = "delivery-request", !.limit = limit, !.recipientKey = recipientKey]

V2MessagesReceivedMessage(messageIdList) ==
  [NoMessage EXCEPT !.type = "messages-received", !.messageIdList = messageIdList]

\* History the code does not keep: every row ever inserted, the ids of the
\* messages the recipient emitted a message-received event for, and the
\* recipientKey of the last status request.
NoHistory == [added |-> {}, received |-> {}, scope |-> NoKey]

NoOp ==
  [op |-> "none", connectionId |-> "c1", ready |-> TRUE, ok |-> TRUE, in |-> NoMessage,
   maximumBatchSize |-> 0, given |-> FALSE, before |-> <<>>, reply |-> NoMessage,
   events |-> <<>>, error |-> "none"]

\* before: the queue as the operation found it
Op(name, connectionId, ready, in) ==
  [NoOp EXCEPT !.op = name, !.connectionId = connectionId, !.ready = ready, !.in = in,
               !.before = queue]

\* the call throws: nothing is returned
Throws(o) == [o EXCEPT !.ok = FALSE]
\* the call throws a ProblemReportError with the problem code given
ThrowsProblemReport(o, problemCode) == [o EXCEPT !.ok = FALSE, !.error = problemCode]
Returns(o, reply) == [o EXCEPT !.reply = reply]

----------------------------------------------------------------------------
(* V2MessagePickupProtocol: message holder side *)

\* addMessage of the repository: a fresh uuid, inserted with the current timestamp
AddMessage(connectionId) ==
  /\ nextUuid <= MaxMessages
  /\ queue' = Append(queue, [id |-> nextUuid, connectionId |-> connectionId])
  /\ nextUuid' = nextUuid + 1
  /\ last' = Op("addMessage", connectionId, TRUE, NoMessage)
  /\ history' = [history EXCEPT !.added = @ \cup {[id |-> nextUuid, connectionId |-> connectionId]}]
  /\ UNCHANGED <<liveSessions, credVars, quietVars>>

\* Mutant: the connection is not asserted to be ready.
processStatusRequest_unasserted(connectionId, ready, threadId, recipientKey) ==
  LET o == Op("processStatusRequest", connectionId, ready,
              [NoMessage EXCEPT !.type = "status-request", !.threadId = threadId,
                                !.recipientKey = recipientKey])
  IN /\ last' = Returns(o, V2StatusMessage(threadId, recipientKey,
                             asyncGetAvailableMessageCount(queue, connectionId), FALSE))
     /\ history' = [history EXCEPT !.scope = recipientKey]
     /\ UNCHANGED <<queue, nextUuid, liveSessions, credVars, quietVars>>

processStatusRequest(connectionId, ready, threadId, recipientKey) ==
  LET o == Op("processStatusRequest", connectionId, ready,
              [NoMessage EXCEPT !.type = "status-request", !.threadId = threadId,
                                !.recipientKey = recipientKey])
  IN /\ last' = IF ~ready THEN Throws(o)
                ELSE Returns(o, V2StatusMessage(threadId, recipientKey,
                                  asyncGetAvailableMessageCount(queue, connectionId), FALSE))
     /\ history' = [history EXCEPT !.scope = recipientKey]
     /\ UNCHANGED <<queue, nextUuid, liveSessions, credVars, quietVars>>

processDeliveryRequest(connectionId, ready, threadId, recipientKey, limit) ==
  LET o == Op("processDeliveryRequest", connectionId, ready,
              [NoMessage EXCEPT !.type = "delivery-request", !.threadId = threadId,
                                !.recipientKey = recipientKey, !.limit = limit])
      taken == asyncTakeFromQueue(queue, connectionId, limit, FALSE)
  IN IF ~ready \/ ~taken.ok
     THEN /\ last' = Throws(o)
          /\ UNCHANGED <<queue, nextUuid, liveSessions, credVars, restVars>>
     ELSE /\ queue' = taken.queue
          /\ last' = Returns(o, IF Len(taken.messages) > 0
                                THEN V2MessageDeliveryMessage(threadId, recipientKey, taken.messages)
                                ELSE V2StatusMessage(threadId, recipientKey, 0, FALSE))
          /\ UNCHANGED <<nextUuid, liveSessions, credVars, restVars>>

\* Mutant: the status reports the count read before the removal.
processMessagesReceived_staleCount(connectionId, ready, threadId, messageIdList) ==
  LET o == Op("processMessagesReceived", connectionId, ready,
              [NoMessage EXCEPT !.type = "messages-received", !.threadId = threadId,
                                !.messageIdList = messageIdList])
      removed == IF Len(messageIdList) # 0
                 THEN asyncRemoveMessages(queue, messageIdList)
                 ELSE [ok |-> TRUE, queue |-> queue]
  IN IF ~ready \/ ~removed.ok
     THEN /\ last' = Throws(o)
          /\ UNCHANGED <<queue, nextUuid, liveSessions, credVars, restVars>>
     ELSE /\ queue' = removed.queue
          /\ last' = Returns(o, V2StatusMessage(threadId, NoKey,
                                  asyncGetAvailableMessageCount(queue, connectionId)
                                    + Len(messageIdList), FALSE))
          /\ UNCHANGED <<nextUuid, liveSessions, credVars, restVars>>

processMessagesReceived(connectionId, ready, threadId, messageIdList) ==
  LET o == Op("processMessagesReceived", connectionId, ready,
              [NoMessage EXCEPT !.type = "messages-received", !.threadId = threadId,
                                !.messageIdList = messageIdList])
      removed == IF Len(messageIdList) # 0
                 THEN asyncRemoveMessages(queue, messageIdList)
                 ELSE [ok |-> TRUE, queue |-> queue]
  IN IF ~ready \/ ~removed.ok
     THEN /\ last' = Throws(o)
          /\ UNCHANGED <<queue, nextUuid, liveSessions, credVars, restVars>>
     ELSE /\ queue' = removed.queue
          /\ last' = Returns(o, V2StatusMessage(threadId, NoKey,
                                  asyncGetAvailableMessageCount(removed.queue, connectionId), FALSE))
          /\ UNCHANGED <<nextUuid, liveSessions, credVars, restVars>>

\* Mutant: disabling drops every live session.
processLiveDeliveryChange_clearing(connectionId, ready, threadId, liveDelivery) ==
  LET o == Op("processLiveDeliveryChange", connectionId, ready,
              [NoMessage EXCEPT !.type = "live-delivery-change", !.threadId = threadId,
                                !.liveDelivery = liveDelivery])
  IN IF ~ready
     THEN /\ last' = Throws(o)
          /\ UNCHANGED <<queue, nextUuid, liveSessions, credVars, restVars>>
     ELSE /\ liveSessions' = IF liveDelivery THEN liveSessions \cup {connectionId} ELSE {}
          /\ last' = Returns(o, V2StatusMessage(threadId, NoKey,
                                  asyncGetAvailableMessageCount(queue, connectionId), liveDelivery))
          /\ UNCHANGED <<queue, nextUuid, credVars, restVars>>

processLiveDeliveryChange(connectionId, ready, threadId, liveDelivery) ==
  LET o == Op("processLiveDeliveryChange", connectionId, ready,
              [NoMessage EXCEPT !.type = "live-delivery-change", !.threadId = threadId,
                                !.liveDelivery = liveDelivery])
  IN IF ~ready
     THEN /\ last' = Throws(o)
          /\ UNCHANGED <<queue, nextUuid, liveSessions, credVars, restVars>>
     ELSE /\ liveSessions' = IF liveDelivery THEN liveSessions \cup {connectionId}
                             ELSE liveSessions \ {connectionId}
          /\ last' = Returns(o, V2StatusMessage(threadId, NoKey,
                                  asyncGetAvailableMessageCount(queue, connectionId), liveDelivery))
          /\ UNCHANGED <<queue, nextUuid, credVars, restVars>>

\* options.messages, when given, is delivered as is; otherwise the queue is read
createDeliveryMessage(connectionId, ready, recipientKey, given, messages) ==
  LET o == [Op("createDeliveryMessage", connectionId, ready,
               [NoMessage EXCEPT !.recipientKey = recipientKey]) EXCEPT !.given = given]
      taken == IF given THEN [ok |-> TRUE, messages |-> messages, queue |-> queue]
               ELSE asyncTakeFromQueue(queue, connectionId, DeliveryBatchLimit, FALSE)
  IN IF ~ready \/ ~taken.ok
     THEN /\ last' = Throws(o)
          /\ UNCHANGED <<queue, nextUuid, liveSessions, credVars, restVars>>
     ELSE /\ queue' = taken.queue
          /\ last' = Returns(o, IF Len(taken.messages) = 0 THEN NoMessage
                                ELSE V2MessageDeliveryMessage("undefined", NoKey, taken.messages))
          /\ UNCHANGED <<nextUuid, liveSessions, credVars, restVars>>

----------------------------------------------------------------------------
(* V2MessagePickupProtocol: recipient side *)

MessagePickupCompleted(connectionId, threadId) ==
  [type |-> "MessagePickupCompleted", connectionId |-> connectionId, threadId |-> threadId]

\* Mutant: the limit is the reported count.
processStatusLimit_uncapped(messageCount, maximumMessagePickup) == messageCount

\* const limit = messageCount < maximumMessagePickup ? messageCount : maximumMessagePickup
processStatusLimit(messageCount, maximumMessagePickup) ==
  IF messageCount < maximumMessagePickup THEN messageCount ELSE maximumMessagePickup

\* Mutant: completion is signalled on every status.
processStatusCompleted_always(messageCount) == TRUE

\* if (messageCount === 0)
processStatusCompleted(messageCount) == messageCount = 0

\* V2StatusHandler.handle: assertReadyConnection, processStatus, and an outbound
\* message only when processStatus returned a delivery request
V2StatusHandler(connectionId, ready, threadId, recipientKey, messageCount, maximumBatchSize) ==
  LET o == [Op("processStatus", connectionId, ready,
               V2StatusMessage(threadId, recipientKey, messageCount, FALSE))
            EXCEPT !.maximumBatchSize = maximumBatchSize]
  IN /\ last' = IF ~ready THEN Throws(o)
                ELSE IF processStatusCompleted(messageCount)
                THEN [o EXCEPT !.events = <<MessagePickupCompleted(connectionId, threadId)>>]
                ELSE Returns(o, V2DeliveryRequestMessage(
                                  processStatusLimit(messageCount, maximumBatchSize), recipientKey))
     /\ UNCHANGED <<queue, nextUuid, liveSessions, credVars, restVars>>

AgentMessageReceived(attachmentId) == [type |-> "AgentMessageReceived", id |-> attachmentId]

\* Mutant: each id replaces the ids collected so far.
processDeliveryIds_last(attachments) ==
  IF attachments = <<>> THEN <<>> ELSE <<attachments[Len(attachments)]>>

\* the ids pushed by the loop over the attachments, one per attachment
processDeliveryIds(attachments) ==
  [i \in 1..Len(attachments) |-> attachments[i]]

\* Mutant: an empty attachment list is refused like a missing one.
processDelivery_emptyFails(connectionId, ready, threadId, hasAttachments, attachments) ==
  LET o == [Op("processDelivery", connectionId, ready,
               [NoMessage EXCEPT !.type = "delivery", !.threadId = threadId,
                                 !.attachments = attachments]) EXCEPT !.given = hasAttachments]
  IN /\ last' = IF ~ready THEN Throws(o)
                ELSE IF ~hasAttachments \/ attachments = <<>>
                THEN ThrowsProblemReport(o, "ErrorProcessingAttachments")
                ELSE [Returns(o, V2MessagesReceivedMessage(processDeliveryIds(attachments)))
                      EXCEPT !.events = [i \in 1..Len(attachments) |->
                                           AgentMessageReceived(attachments[i])]]
     /\ history' = [history EXCEPT !.received = @ \cup {e.id : e \in Range(last'.events)}]
     /\ UNCHANGED <<queue, nextUuid, liveSessions, credVars, quietVars>>

\* appendedAttachments absent (hasAttachments = FALSE) is a problem report error
processDelivery(connectionId, ready, threadId, hasAttachments, attachments) ==
  LET o == [Op("processDelivery", connectionId, ready,
               [NoMessage EXCEPT !.type = "delivery", !.threadId = threadId,
                                 !.attachments = attachments]) EXCEPT !.given = hasAttachments]
  IN /\ last' = IF ~ready THEN Throws(o)
                ELSE IF ~hasAttachments
                THEN ThrowsProblemReport(o, "ErrorProcessingAttachments")
                ELSE [Returns(o, V2MessagesReceivedMessage(processDeliveryIds(attachments)))
                      EXCEPT !.events = [i \in 1..Len(attachments) |->
                                           AgentMessageReceived(attachments[i])]]
     /\ history' = [history EXCEPT !.received = @ \cup {e.id : e \in Range(last'.events)}]
     /\ UNCHANGED <<queue, nextUuid, liveSessions, credVars, quietVars>>

----------------------------------------------------------------------------
(* Issue-credential v2: exchange records, stored messages, format services *)

NoConnection == "undefined"
CredConnections == Connections \cup {NoConnection}
RemoteThreads == {MaxLocalThreads + k : k \in 1..MaxRemoteThreads}
KnownThreads == (1..(nextThread - 1)) \cup RemoteThreads

\* The format services the protocol is constructed with, named by formatKey.
NoService == "null"
credentialFormats == <<"k1", "k2">>
supportsFormat(formatService, format) ==
  <<formatService, format>> \in {<<"k1", "f1">>, <<"k1", "f1b">>, <<"k2", "f2">>}
FormatOfService(formatService) == IF formatService = "k1" THEN "f1" ELSE "f2"

\* Array.from(new Set(...)): first occurrences in order, null results skipped.
RECURSIVE ArrayFromSet(_)
ArrayFromSet(found) ==
  IF found = <<>> THEN <<>>
  ELSE LET front == ArrayFromSet(SubSeq(found, 1, Len(found) - 1))
           x == found[Len(found)]
       IN IF x = NoService \/ x \in Range(front) THEN front ELSE Append(front, x)

getFormatServiceForFormatKey(formatKey) ==
  LET hits == SelectSeq(credentialFormats, LAMBDA s : s = formatKey)
  IN IF hits = <<>> THEN NoService ELSE hits[1]

getFormatServiceForFormat(format) ==
  LET hits == SelectSeq(credentialFormats, LAMBDA s : supportsFormat(s, format))
  IN IF hits = <<>> THEN NoService ELSE hits[1]

\* Mutant: the services found are returned as a list, one per format.
getFormatServicesFromMessage_listed(messageFormats) ==
  SelectSeq([i \in 1..Len(messageFormats) |-> getFormatServiceForFormat(messageFormats[i])],
            LAMBDA x : x # NoService)

getFormatServicesFromMessage(messageFormats) ==
  ArrayFromSet([i \in 1..Len(messageFormats) |-> getFormatServiceForFormat(messageFormats[i])])

getFormatServices(formatKeys) ==
  ArrayFromSet([i \in 1..Len(formatKeys) |-> getFormatServiceForFormatKey(formatKeys[i])])

FormatsOf(formatServices) ==
  [i \in 1..Len(formatServices) |-> FormatOfService(formatServices[i])]

\* Inputs: format-key lists an application passes, format lists a peer sends.
KeyLists == {<<>>, <<"k1">>}
InFormats == {<<"f1">>, <<"fx">>}
\* The same with lists of two: for the handlers of a request.
WideKeyLists == KeyLists \cup {<<"k1", "k2">>}
WideFormats == InFormats \cup {<<"f1", "f2">>}

MessageClasses == {"proposal", "offer", "request", "credential"}
NoStored == [role |-> "none", formats |-> <<>>, from |-> NoConnection]
NoMessages == [c \in MessageClasses |-> NoStored]

\* message.thread?.parentThreadId: the messages of a thread the peer started
\* name a parent thread, those of a thread started here name none.
NoThread == 0
parentThreadId(m) ==
  IF m.threadId \in RemoteThreads THEN m.threadId + MaxRemoteThreads ELSE NoThread

\* Mutant: the record is constructed for the other protocol version.
DidCommCredentialExchangeRecord_v1(threadId, connectionId, role, state) ==
  [threadId |-> threadId, connectionId |-> connectionId, role |-> role,
   state |-> state, protocolVersion |-> "v1", parentThreadId |-> NoThread,
   connectionless |-> (connectionId = NoConnection)]

\* connectionless is a history field the code does not have: whether
\* the record was constructed without a connection id.
DidCommCredentialExchangeRecord(threadId, connectionId, role, state) ==
  [threadId |-> threadId, connectionId |-> connectionId, role |-> role,
   state |-> state, protocolVersion |-> "v2", parentThreadId |-> NoThread,
   connectionless |-> (connectionId = NoConnection)]

\* Record store and message repository queries.
findByProperties(threadId, role, connectionId) ==
  {i \in 1..Len(records) :
     /\ records[i].threadId = threadId
     /\ records[i].role = role
     /\ connectionId # NoConnection => records[i].connectionId = connectionId}

findAgentMessage(recordId, messageClass, role) ==
  didcommMessages[recordId][messageClass].role = role

\* Mutant: a record of any protocol version is accepted.
assertProtocolVersion_any(record) == TRUE

assertProtocolVersion(record) == record.protocolVersion = "v2"

\* The connection service's check of an inbound message: the sender must be
\* the expected connection when the record has one; a message that came over
\* a connection needs no more, a connection-less one must match the services
\* of the messages exchanged before.  Whether it does, and whether the sender
\* answers the out-of-band exchange of the thread, is the message's authentic
\* flag.
assertConnectionOrOutOfBandExchange(m, expectedConnectionId) ==
  /\ expectedConnectionId # NoConnection => m.connectionId = expectedConnectionId
  /\ m.connectionId = NoConnection => m.authentic

\* Mutant: every sender is taken to answer the out-of-band exchange.
matchIncomingMessageToRequestMessageInOutOfBandExchange_any(m) == TRUE

matchIncomingMessageToRequestMessageInOutOfBandExchange(m) == m.authentic

\* The record of the last credential operation: its name, whether it
\* returned, whether its inbound message was one processed before, and the
\* record it stored with that record's previous state ("null" for a new one).
\* An operation that throws stores nothing and leaves only ok = FALSE.
NoInbound ==
  [kind |-> "none", threadId |-> 0, connectionId |-> NoConnection,
   formats |-> <<>>, authentic |-> FALSE, resent |-> FALSE]
NoCredOp ==
  [op |-> "none", ok |-> TRUE, replay |-> FALSE, recordId |-> 0, previousState |-> "null",
   error |-> "none"]
CredOp(name, m) == [NoCredOp EXCEPT !.op = name, !.replay = m.resent]

\* A message is resent when the message repository holds it as the message
\* received last, of its class, for a record of its thread.
Resent(m) ==
  /\ m.kind \in MessageClasses
  /\ \E i \in 1..Len(records) :
       /\ records[i].threadId = m.threadId
       /\ didcommMessages[i][m.kind] =
            [role |-> "receiver", formats |-> m.formats, from |-> m.connectionId]

InboundWith(kind, formatLists) ==
  {m \in [kind : {kind}, threadId : KnownThreads, connectionId : CredConnections,
          formats : formatLists, authentic : BOOLEAN, resent : BOOLEAN] :
     m.resent => Resent(m)}

Inbound(kind) == InboundWith(kind, InFormats)

\* Mutant: the throwing call leaves a write behind, the connection id of
\* every record cleared.
Fails_written(o) ==
  /\ lastCred' = [NoCredOp EXCEPT !.ok = FALSE]
  /\ records' = [i \in 1..Len(records) |-> [records[i] EXCEPT !.connectionId = NoConnection]]
  /\ UNCHANGED didcommMessages

Fails(o) ==
  /\ lastCred' = [NoCredOp EXCEPT !.ok = FALSE]
  /\ UNCHANGED <<records, didcommMessages>>

\* throw new CredoError('Unable to ... No supported formats')
NoSupportedFormats(o) ==
  /\ lastCred' = [NoCredOp EXCEPT !.ok = FALSE, !.error = "No supported formats"]
  /\ UNCHANGED <<records, didcommMessages>>

\* updateState: the record as the operation holds it is stored with the new
\* state.
updateState(o, recordId, record, newState, stored) ==
  /\ records' = [records EXCEPT ![recordId] = [record EXCEPT !.state = newState]]
  /\ didcommMessages' = [didcommMessages EXCEPT ![recordId] = stored]
  /\ lastCred' = [o EXCEPT !.recordId = recordId, !.previousState = records[recordId].state]

\* save of a new record together with the message the coordinator stored.
save(o, record, stored) ==
  /\ Len(records) < MaxRecords
  /\ records' = Append(records, record)
  /\ didcommMessages' = Append(didcommMessages, stored)
  /\ lastCred' = [o EXCEPT !.recordId = Len(records) + 1]

saveOrUpdateAgentMessage(stored, messageClass, role, formats, from) ==
  [stored EXCEPT ![messageClass] = [role |-> role, formats |-> formats, from |-> from]]

----------------------------------------------------------------------------
(* V2DidCommCredentialProtocol: local initiation *)

createProposal(connectionId, formatKeys) ==
  LET o == CredOp("createProposal", NoInbound)
      formatServices == getFormatServices(formatKeys)
  IN /\ nextThread <= MaxLocalThreads
     /\ IF formatServices = <<>>
        THEN NoSupportedFormats(o) /\ UNCHANGED nextThread
        ELSE /\ save(o, DidCommCredentialExchangeRecord(nextThread, connectionId, "Holder", "ProposalSent"),
                     saveOrUpdateAgentMessage(NoMessages, "proposal", "sender", FormatsOf(formatServices), NoConnection))
             /\ nextThread' = nextThread + 1
     /\ UNCHANGED <<pickupVars, restVars>>

createOffer(connectionId, formatKeys) ==
  LET o == CredOp("createOffer", NoInbound)
      formatServices == getFormatServices(formatKeys)
  IN /\ nextThread <= MaxLocalThreads
     /\ IF formatServices = <<>>
        THEN NoSupportedFormats(o) /\ UNCHANGED nextThread
        ELSE /\ save(o, DidCommCredentialExchangeRecord(nextThread, connectionId, "Issuer", "OfferSent"),
                     saveOrUpdateAgentMessage(NoMessages, "offer", "sender", FormatsOf(formatServices), NoConnection))
             /\ nextThread' = nextThread + 1
     /\ UNCHANGED <<pickupVars, restVars>>

createRequest(connectionId, formatKeys) ==
  LET o == CredOp("createRequest", NoInbound)
      formatServices == getFormatServices(formatKeys)
  IN /\ nextThread <= MaxLocalThreads
     /\ IF formatServices = <<>>
        THEN NoSupportedFormats(o) /\ UNCHANGED nextThread
        ELSE /\ save(o, DidCommCredentialExchangeRecord(nextThread, connectionId, "Holder", "RequestSent"),
                     saveOrUpdateAgentMessage(NoMessages, "request", "sender", FormatsOf(formatServices), NoConnection))
             /\ nextThread' = nextThread + 1
     /\ UNCHANGED <<pickupVars, restVars>>

----------------------------------------------------------------------------
(* V2DidCommCredentialProtocol: inbound messages *)

\* The record an inbound message is matched to: the ids the query returns.
processProposalLookup_none(m) == {}

processProposalLookup(m) == findByProperties(m.threadId, "Issuer", NoConnection)

processOfferLookup(m) == findByProperties(m.threadId, "Holder", m.connectionId)

processRequestLookup_none(m) == {}

processRequestLookup(m) == findByProperties(m.threadId, "Issuer", NoConnection)

\* An issuer-side record without a connection takes the sender's connection
\* once the sender is matched to the out-of-band exchange.
BindConnection(record, m) ==
  IF record.connectionId = NoConnection
  THEN [record EXCEPT !.connectionId = m.connectionId]
  ELSE record

processProposal(m) ==
  LET o == CredOp("processProposal", m)
      found == processProposalLookup(m)
      formatServices == getFormatServicesFromMessage(m.formats)
  IN /\ IF Cardinality(found) > 1
        THEN Fails(o)
        ELSE IF formatServices = <<>>
        THEN NoSupportedFormats(o)
        ELSE IF found # {}
        THEN LET recordId == CHOOSE i \in found : TRUE
                 record == records[recordId]
             IN IF /\ assertProtocolVersion(record)
                   /\ record.state = "OfferSent"
                   /\ assertConnectionOrOutOfBandExchange(m, record.connectionId)
                   /\ record.connectionId = NoConnection =>
                        matchIncomingMessageToRequestMessageInOutOfBandExchange(m)
                THEN updateState(o, recordId, BindConnection(record, m), "ProposalReceived",
                       saveOrUpdateAgentMessage(didcommMessages[recordId], "proposal", "receiver", m.formats, m.connectionId))
                ELSE Fails(o)
        ELSE IF assertConnectionOrOutOfBandExchange(m, NoConnection)
        THEN save(o, [DidCommCredentialExchangeRecord(m.threadId, m.connectionId, "Issuer", "ProposalReceived") EXCEPT !.parentThreadId = parentThreadId(m)],
                  saveOrUpdateAgentMessage(NoMessages, "proposal", "receiver", m.formats, m.connectionId))
        ELSE Fails(o)
     /\ UNCHANGED <<nextThread, pickupVars, restVars>>

processOffer(m) ==
  LET o == CredOp("processOffer", m)
      found == processOfferLookup(m)
      formatServices == getFormatServicesFromMessage(m.formats)
  IN /\ IF Cardinality(found) > 1
        THEN Fails(o)
        ELSE IF formatServices = <<>>
        THEN NoSupportedFormats(o)
        ELSE IF found # {}
        THEN LET recordId == CHOOSE i \in found : TRUE
                 record == records[recordId]
             IN IF /\ assertProtocolVersion(record)
                   /\ record.state = "ProposalSent"
                   /\ assertConnectionOrOutOfBandExchange(m, record.connectionId)
                THEN updateState(o, recordId, record, "OfferReceived",
                       saveOrUpdateAgentMessage(didcommMessages[recordId], "offer", "receiver", m.formats, m.connectionId))
                ELSE Fails(o)
        ELSE IF assertConnectionOrOutOfBandExchange(m, NoConnection)
        THEN save(o, [DidCommCredentialExchangeRecord(m.threadId, m.connectionId, "Holder", "OfferReceived") EXCEPT !.parentThreadId = parentThreadId(m)],
                  saveOrUpdateAgentMessage(NoMessages, "offer", "receiver", m.formats, m.connectionId))
        ELSE Fails(o)
     /\ UNCHANGED <<nextThread, pickupVars, restVars>>

processRequest(m) ==
  LET o == CredOp("processRequest", m)
      found == processRequestLookup(m)
      formatServices == getFormatServicesFromMessage(m.formats)
  IN /\ IF Cardinality(found) > 1
        THEN Fails(o)
        ELSE IF formatServices = <<>>
        THEN NoSupportedFormats(o)
        ELSE IF found # {}
        THEN LET recordId == CHOOSE i \in found : TRUE
                 record == records[recordId]
             IN IF /\ assertProtocolVersion(record)
                   /\ record.state = "OfferSent"
                   /\ assertConnectionOrOutOfBandExchange(m, record.connectionId)
                   /\ record.connectionId = NoConnection =>
                        matchIncomingMessageToRequestMessageInOutOfBandExchange(m)
                THEN updateState(o, recordId, BindConnection(record, m), "RequestReceived",
                       saveOrUpdateAgentMessage(didcommMessages[recordId], "request", "receiver", m.formats, m.connectionId))
                ELSE Fails(o)
        ELSE IF assertConnectionOrOutOfBandExchange(m, NoConnection)
        THEN save(o, [DidCommCredentialExchangeRecord(m.threadId, m.connectionId, "Issuer", "RequestReceived") EXCEPT !.parentThreadId = parentThreadId(m)],
                  saveOrUpdateAgentMessage(NoMessages, "request", "receiver", m.formats, m.connectionId))
        ELSE Fails(o)
     /\ UNCHANGED <<nextThread, pickupVars, restVars>>

processCredential(m) ==
  LET o == CredOp("processCredential", m)
      found == findByProperties(m.threadId, "Holder", m.connectionId)
  IN /\ IF Cardinality(found) # 1
        THEN Fails(o)
        ELSE LET recordId == CHOOSE i \in found : TRUE
                 record == records[recordId]
             IN IF ~(/\ findAgentMessage(recordId, "request", "sender")
                     /\ assertProtocolVersion(record)
                     /\ record.state = "RequestSent"
                     /\ assertConnectionOrOutOfBandExchange(m, record.connectionId))
                THEN Fails(o)
                ELSE IF getFormatServicesFromMessage(m.formats) = <<>>
                THEN NoSupportedFormats(o)
                ELSE updateState(o, recordId, record, "CredentialReceived",
                       saveOrUpdateAgentMessage(didcommMessages[recordId], "credential", "receiver", m.formats, m.connectionId))
     /\ UNCHANGED <<nextThread, pickupVars, restVars>>

processAckAssertState_any(record) == TRUE

processAckAssertState(record) == record.state = "CredentialIssued"

\* The connection of the message overwrites the one of the record as soon as
\* the record is found; the assertions then read the overwritten record.
processAck(m) ==
  LET o == CredOp("processAck", m)
      found == findByProperties(m.threadId, "Issuer", m.connectionId)
  IN /\ IF Cardinality(found) # 1
        THEN Fails(o)
        ELSE LET recordId == CHOOSE i \in found : TRUE
                 record == [records[recordId] EXCEPT !.connectionId = m.connectionId]
             IN IF /\ findAgentMessage(recordId, "request", "receiver")
                   /\ findAgentMessage(recordId, "credential", "sender")
                   /\ assertProtocolVersion(record)
                   /\ processAckAssertState(record)
                   /\ assertConnectionOrOutOfBandExchange(m, record.connectionId)
                THEN updateState(o, recordId, record, "Done", didcommMessages[recordId])
                ELSE Fails(o)
     /\ UNCHANGED <<nextThread, pickupVars, restVars>>

----------------------------------------------------------------------------
(* V2DidCommCredentialProtocol: accepting and negotiating *)

\* The format services of an accept: those of the given keys, else those of
\* the message received last; the second component tells whether that message
\* was found.
\* Mutant: no fall back to the formats of the received message.
AcceptFormatServices_explicit(recordId, formatKeys, messageClass) ==
  [found |-> TRUE, services |-> getFormatServices(formatKeys)]

AcceptFormatServices(recordId, formatKeys, messageClass) ==
  LET given == getFormatServices(formatKeys)
  IN IF given # <<>> THEN [found |-> TRUE, services |-> given]
     ELSE [found |-> findAgentMessage(recordId, messageClass, "receiver"),
           services |-> getFormatServicesFromMessage(didcommMessages[recordId][messageClass].formats)]

\* Mutant: the state of the record is not asserted.
acceptProposal_anyState(recordId, formatKeys) ==
  LET o == CredOp("acceptProposal", NoInbound)
      record == records[recordId]
      formats == AcceptFormatServices(recordId, formatKeys, "proposal")
  IN /\ IF /\ assertProtocolVersion(record)
           /\ formats.found
           /\ formats.services # <<>>
        THEN updateState(o, recordId, record, "OfferSent",
               saveOrUpdateAgentMessage(didcommMessages[recordId], "offer", "sender", FormatsOf(formats.services), NoConnection))
        ELSE Fails(o)
     /\ UNCHANGED <<nextThread, pickupVars, restVars>>

acceptProposal(recordId, formatKeys) ==
  LET o == CredOp("acceptProposal", NoInbound)
      record == records[recordId]
      formats == AcceptFormatServices(recordId, formatKeys, "proposal")
  IN /\ IF /\ assertProtocolVersion(record)
           /\ record.state = "ProposalReceived"
           /\ formats.found
           /\ formats.services # <<>>
        THEN updateState(o, recordId, record, "OfferSent",
               saveOrUpdateAgentMessage(didcommMessages[recordId], "offer", "sender", FormatsOf(formats.services), NoConnection))
        ELSE Fails(o)
     /\ UNCHANGED <<nextThread, pickupVars, restVars>>

\* Mutant: the offer is sent whatever state the record is in.
negotiateProposal_anyState(recordId, formatKeys) ==
  LET o == CredOp("negotiateProposal", NoInbound)
      record == records[recordId]
      formatServices == getFormatServices(formatKeys)
  IN /\ IF /\ assertProtocolVersion(record)
           /\ record.connectionId # NoConnection
           /\ formatServices # <<>>
        THEN updateState(o, recordId, record, "OfferSent",
               saveOrUpdateAgentMessage(didcommMessages[recordId], "offer", "sender", FormatsOf(formatServices), NoConnection))
        ELSE Fails(o)
     /\ UNCHANGED <<nextThread, pickupVars, restVars>>

negotiateProposal(recordId, formatKeys) ==
  LET o == CredOp("negotiateProposal", NoInbound)
      record == records[recordId]
      formatServices == getFormatServices(formatKeys)
  IN /\ IF /\ assertProtocolVersion(record)
           /\ record.state = "ProposalReceived"
           /\ record.connectionId # NoConnection
           /\ formatServices # <<>>
        THEN updateState(o, recordId, record, "OfferSent",
               saveOrUpdateAgentMessage(didcommMessages[recordId], "offer", "sender", FormatsOf(formatServices), NoConnection))
        ELSE Fails(o)
     /\ UNCHANGED <<nextThread, pickupVars, restVars>>

\* Mutant: the record is stored again as a record of the other role.
acceptOffer_asIssuer(recordId, formatKeys) ==
  LET o == CredOp("acceptOffer", NoInbound)
      record == records[recordId]
      formats == AcceptFormatServices(recordId, formatKeys, "offer")
  IN /\ IF /\ assertProtocolVersion(record)
           /\ record.state = "OfferReceived"
           /\ formats.found
           /\ formats.services # <<>>
        THEN updateState(o, recordId, [record EXCEPT !.role = "Issuer"], "RequestSent",
               saveOrUpdateAgentMessage(didcommMessages[recordId], "request", "sender", FormatsOf(formats.services), NoConnection))
        ELSE Fails(o)
     /\ UNCHANGED <<nextThread, pickupVars, restVars>>

acceptOffer(recordId, formatKeys) ==
  LET o == CredOp("acceptOffer", NoInbound)
      record == records[recordId]
      formats == AcceptFormatServices(recordId, formatKeys, "offer")
  IN /\ IF /\ assertProtocolVersion(record)
           /\ record.state = "OfferReceived"
           /\ formats.found
           /\ formats.services # <<>>
        THEN updateState(o, recordId, record, "RequestSent",
               saveOrUpdateAgentMessage(didcommMessages[recordId], "request", "sender", FormatsOf(formats.services), NoConnection))
        ELSE Fails(o)
     /\ UNCHANGED <<nextThread, pickupVars, restVars>>

\* Mutant: the counter-proposal moves the record on to RequestSent.
negotiateOffer_advancing(recordId, formatKeys) ==
  LET o == CredOp("negotiateOffer", NoInbound)
      record == records[recordId]
      formatServices == getFormatServices(formatKeys)
  IN /\ IF /\ assertProtocolVersion(record)
           /\ record.state = "OfferReceived"
           /\ record.connectionId # NoConnection
           /\ formatServices # <<>>
        THEN updateState(o, recordId, record, "RequestSent",
               saveOrUpdateAgentMessage(didcommMessages[recordId], "proposal", "sender", FormatsOf(formatServices), NoConnection))
        ELSE Fails(o)
     /\ UNCHANGED <<nextThread, pickupVars, restVars>>

negotiateOffer(recordId, formatKeys) ==
  LET o == CredOp("negotiateOffer", NoInbound)
      record == records[recordId]
      formatServices == getFormatServices(formatKeys)
  IN /\ IF /\ assertProtocolVersion(record)
           /\ record.state = "OfferReceived"
           /\ record.connectionId # NoConnection
           /\ formatServices # <<>>
        THEN updateState(o, recordId, record, "ProposalSent",
               saveOrUpdateAgentMessage(didcommMessages[recordId], "proposal", "sender", FormatsOf(formatServices), NoConnection))
        ELSE Fails(o)
     /\ UNCHANGED <<nextThread, pickupVars, restVars>>

acceptRequest(recordId, formatKeys) ==
  LET o == CredOp("acceptRequest", NoInbound)
      record == records[recordId]
      formats == AcceptFormatServices(recordId, formatKeys, "request")
  IN /\ IF /\ assertProtocolVersion(record)
           /\ record.state = "RequestReceived"
           /\ formats.found
           /\ formats.services # <<>>
        THEN updateState(o, recordId, record, "CredentialIssued",
               saveOrUpdateAgentMessage(didcommMessages[recordId], "credential", "sender", FormatsOf(formats.services), NoConnection))
        ELSE Fails(o)
     /\ UNCHANGED <<nextThread, pickupVars, restVars>>

acceptCredentialAssertState_any(record) == TRUE

acceptCredentialAssertState(record) == record.state = "CredentialReceived"

\* Mutant: the record is stored again without moving to Done.
acceptCredential_unfinished(recordId) ==
  LET o == CredOp("acceptCredential", NoInbound)
      record == records[recordId]
  IN /\ IF assertProtocolVersion(record) /\ acceptCredentialAssertState(record)
        THEN updateState(o, recordId, record, "CredentialReceived", didcommMessages[recordId])
        ELSE Fails(o)
     /\ UNCHANGED <<nextThread, pickupVars, restVars>>

acceptCredential(recordId) ==
  LET o == CredOp("acceptCredential", NoInbound)
      record == records[recordId]
  IN /\ IF assertProtocolVersion(record) /\ acceptCredentialAssertState(record)
        THEN updateState(o, recordId, record, "Done", didcommMessages[recordId])
        ELSE Fails(o)
     /\ UNCHANGED <<nextThread, pickupVars, restVars>>

----------------------------------------------------------------------------
(* Inbound messages handled at the same time *)

\* With processDidCommMessagesConcurrently the dispatcher starts the handler
\* of a message without waiting for the handler of the message before it;
\* without it a handler starts only when no other is running.  A handler
\* yields at every await, so what it read before an await and what it writes
\* after it are separate steps.
HandlerSlots == 1..MaxHandlers
NoRecord == DidCommCredentialExchangeRecord(0, NoConnection, "none", "none")
IdleHandler == [pc |-> "idle", message |-> NoInbound, recordId |-> 0, record |-> NoRecord]
IdlePull == [pc |-> "idle", connectionId |-> "c1", left |-> 0, messageCount |-> 0]

MayStart(slots, h) ==
  /\ slots[h].pc \in {"idle", "replied"}
  /\ processDidCommMessagesConcurrently
       \/ \A g \in HandlerSlots : slots[g].pc \in {"idle", "replied"}

\* processRequest up to the awaits that follow its assertions: the lookup, the
\* format check and the assertions read the store as it is now.
processRequestBegin(h, m) ==
  LET o == CredOp("processRequest", m)
      found == processRequestLookup(m)
      formatServices == getFormatServicesFromMessage(m.formats)
  IN /\ MayStart(handlers, h)
     /\ IF Cardinality(found) > 1
        THEN Fails(o) /\ UNCHANGED handlers
        ELSE IF formatServices = <<>>
        THEN NoSupportedFormats(o) /\ UNCHANGED handlers
        ELSE IF found # {}
        THEN LET recordId == CHOOSE i \in found : TRUE
                 record == records[recordId]
             IN IF /\ assertProtocolVersion(record)
                   /\ record.state = "OfferSent"
                   /\ assertConnectionOrOutOfBandExchange(m, record.connectionId)
                   /\ record.connectionId = NoConnection =>
                        matchIncomingMessageToRequestMessageInOutOfBandExchange(m)
                THEN /\ handlers' = [handlers EXCEPT ![h] =
                          [pc |-> "asserted", message |-> m, recordId |-> recordId,
                           record |-> BindConnection(record, m)]]
                     /\ UNCHANGED <<records, didcommMessages, lastCred>>
                ELSE Fails(o) /\ UNCHANGED handlers
        ELSE IF assertConnectionOrOutOfBandExchange(m, NoConnection)
        THEN /\ handlers' = [handlers EXCEPT ![h] =
                  [pc |-> "asserted", message |-> m, recordId |-> 0,
                   record |-> [DidCommCredentialExchangeRecord(m.threadId, m.connectionId, "Issuer", "RequestReceived") EXCEPT !.parentThreadId = parentThreadId(m)]]]
             /\ UNCHANGED <<records, didcommMessages, lastCred>>
        ELSE Fails(o) /\ UNCHANGED handlers
     /\ UNCHANGED <<nextThread, pickupVars, processDidCommMessagesConcurrently, pulls, autoRespond, problemReport, _endpoints, assigned, history>>

\* processRequest after those awaits: the record the handler holds is stored,
\* whatever the store holds by now.
processRequestEnd(h) ==
  LET o == CredOp("processRequest", handlers[h].message)
      m == handlers[h].message
      recordId == handlers[h].recordId
  IN /\ handlers[h].pc = "asserted"
     /\ IF recordId # 0
        THEN updateState(o, recordId, handlers[h].record, "RequestReceived",
               saveOrUpdateAgentMessage(didcommMessages[recordId], "request", "receiver",
                                        m.formats, m.connectionId))
        ELSE save(o, handlers[h].record,
               saveOrUpdateAgentMessage(NoMessages, "request", "receiver",
                                        m.formats, m.connectionId))
     /\ handlers' = [handlers EXCEPT ![h] = IdleHandler]
     /\ UNCHANGED <<nextThread, pickupVars, processDidCommMessagesConcurrently, pulls, autoRespond, problemReport, _endpoints, assigned, history>>

\* The request handlers (V1RequestCredentialHandler, and the handler of the
\* structurally identical proof protocol): processRequest has returned the
\* record; on a true auto-respond decision the handler accepts the request
\* without naming formats, on a false one it returns nothing.  The credential
\* handler first looks the offer message up and throws when there is none.
\* The slot keeps how the handler ended and the record as processRequest left
\* it.
RequestHandlerRespond(shouldAutoRespond, checksOffer) ==
  LET recordId == lastCred.recordId
      record == records[recordId]
      o == CredOp("acceptRequest", NoInbound)
      formats == AcceptFormatServices(recordId, <<>>, "request")
      ended(how) == handlers' = [handlers EXCEPT ![1] =
                       [pc |-> how, message |-> NoInbound, recordId |-> recordId, record |-> record]]
  IN /\ lastCred.op = "processRequest"
     /\ lastCred.ok
     /\ lastCred.recordId # 0
     /\ IF ~shouldAutoRespond
        THEN /\ ended("kept")
             /\ lastCred' = [NoCredOp EXCEPT !.op = "requestHandler", !.recordId = recordId,
                                             !.previousState = record.state]
             /\ UNCHANGED <<records, didcommMessages>>
        ELSE IF checksOffer /\ didcommMessages[recordId]["offer"].role = "none"
        THEN Fails(o) /\ ended("threwNoOffer")
        ELSE IF /\ assertProtocolVersion(record)
                /\ record.state = "RequestReceived"
                /\ formats.found
                /\ formats.services # <<>>
        THEN /\ updateState(o, recordId, record, "CredentialIssued",
                   saveOrUpdateAgentMessage(didcommMessages[recordId], "credential", "sender",
                                            FormatsOf(formats.services), NoConnection))
             /\ ended("responded")
        ELSE Fails(o) /\ ended("threw")
     /\ UNCHANGED <<nextThread, pickupVars, processDidCommMessagesConcurrently, pulls, autoRespond, problemReport, _endpoints, assigned, history>>

\* processMessagesReceived up to the await of removeMessages, and after it:
\* the count of the reply is read from the queue as it is by then.  left is
\* the size of the connection's queue right after the handler's own removal.
processMessagesReceivedRemove(h, connectionId, ready, messageIdList) ==
  LET removed == asyncRemoveMessages(queue, messageIdList)
      after == IF Len(messageIdList) > 0 THEN removed.queue ELSE queue
  IN /\ MayStart(pulls, h)
     /\ ready
     /\ queue' = after
     /\ pulls' = [pulls EXCEPT ![h] =
          [pc |-> "removed", connectionId |-> connectionId,
           left |-> asyncGetAvailableMessageCount(after, connectionId), messageCount |-> 0]]
     /\ UNCHANGED <<nextUuid, liveSessions, last, credVars,
                    processDidCommMessagesConcurrently, handlers, autoRespond, problemReport, _endpoints, assigned, history>>

processMessagesReceivedCount(h) ==
  /\ pulls[h].pc = "removed"
  /\ pulls' = [pulls EXCEPT ![h].pc = "replied",
                            ![h].messageCount =
                               asyncGetAvailableMessageCount(queue, pulls[h].connectionId)]
  /\ UNCHANGED <<queue, nextUuid, liveSessions, last, credVars,
                 processDidCommMessagesConcurrently, handlers, autoRespond, problemReport, _endpoints, assigned, history>>

\* processDeliveryRequest: its one queue operation when messages are found.
processDeliveryRequestTake(h, connectionId, ready, limit) ==
  LET taken == asyncTakeFromQueue(queue, connectionId, limit, FALSE)
  IN /\ MayStart(pulls, h)
     /\ ready
     /\ taken.ok
     /\ queue' = taken.queue
     /\ pulls' = [pulls EXCEPT ![h] = IdlePull]
     /\ UNCHANGED <<nextUuid, liveSessions, last, credVars,
                    processDidCommMessagesConcurrently, handlers, autoRespond, problemReport, _endpoints, assigned, history>>

\* A message is queued while no pickup handler is running.
QueueMessage(connectionId) ==
  /\ \A h \in HandlerSlots : pulls[h].pc \in {"idle", "replied"}
  /\ AddMessage(connectionId)

----------------------------------------------------------------------------
(* Auto-accept decisions of the credential protocol *)

MaxAttributes == 2

NoPolicy == "undefined"
AutoAcceptCredential == {"always", "contentApproved", "never"}

\* recordConfig ?? agentConfig ?? Never
composeAutoAccept(recordConfig, agentConfig) ==
  IF recordConfig # NoPolicy THEN recordConfig
  ELSE IF agentConfig # NoPolicy THEN agentConfig
  ELSE "never"

\* A credential preview is a list of attributes; a message may carry none.
PreviewAttributes ==
  {[name |-> "name", value |-> "John"], [name |-> "name", value |-> "Jane"],
   [name |-> "age", value |-> "30"]}
NoPreview == [present |-> FALSE, attributes |-> <<>>]
CredentialPreviews ==
  {NoPreview} \cup
  {[present |-> TRUE, attributes |-> a] :
     a \in UNION {[1..n -> PreviewAttributes] : n \in 0..MaxAttributes}}

\* Same attributes, in any order.
arePreviewAttributesEqual(firstAttributes, secondAttributes) ==
  /\ Len(firstAttributes) = Len(secondAttributes)
  /\ Range(firstAttributes) = Range(secondAttributes)

\* The inbound message, and the message found (or not) in the message
\* repository for the record.
DecisionFormats == {<<"f1">>, <<"f1", "f2">>}
NoAgentMessage == [stored |-> FALSE, formats |-> <<>>, credentialPreview |-> NoPreview]
AgentMessages ==
  [stored : {TRUE}, formats : DecisionFormats, credentialPreview : CredentialPreviews]
FoundMessages == {NoAgentMessage} \cup AgentMessages

\* The loop over the format services of the message sent last: agreeing is
\* the set of format services whose own shouldAutoRespondTo... answers true.
FormatServicesAgree(lastSent, agreeing) ==
  LET formatServices == getFormatServicesFromMessage(lastSent.formats)
  IN \A i \in 1..Len(formatServices) : formatServices[i] \in agreeing

shouldAutoRespondToProposal(autoAcceptCredential, autoAcceptCredentials, proposalMessage, offerMessage, agreeing) ==
  LET autoAccept == composeAutoAccept(autoAcceptCredential, autoAcceptCredentials)
  IN IF autoAccept = "always" THEN TRUE
     ELSE IF autoAccept = "never" THEN FALSE
     ELSE IF ~offerMessage.stored THEN FALSE
     ELSE IF ~FormatServicesAgree(offerMessage, agreeing) THEN FALSE
     ELSE IF proposalMessage.credentialPreview.present \/ offerMessage.credentialPreview.present
     THEN IF ~proposalMessage.credentialPreview.present \/ ~offerMessage.credentialPreview.present
          THEN FALSE
          ELSE arePreviewAttributesEqual(proposalMessage.credentialPreview.attributes,
                                         offerMessage.credentialPreview.attributes)
     ELSE TRUE

\* Mutant: the previews are not compared.
shouldAutoRespondToOffer_unpreviewed(autoAcceptCredential, autoAcceptCredentials, offerMessage, proposalMessage, agreeing) ==
  LET autoAccept == composeAutoAccept(autoAcceptCredential, autoAcceptCredentials)
  IN IF autoAccept = "always" THEN TRUE
     ELSE IF autoAccept = "never" THEN FALSE
     ELSE IF ~proposalMessage.stored THEN FALSE
     ELSE FormatServicesAgree(proposalMessage, agreeing)

\* preview?.attributes ?? [] : an absent preview is compared as an empty list.
shouldAutoRespondToOffer(autoAcceptCredential, autoAcceptCredentials, offerMessage, proposalMessage, agreeing) ==
  LET autoAccept == composeAutoAccept(autoAcceptCredential, autoAcceptCredentials)
  IN IF autoAccept = "always" THEN TRUE
     ELSE IF autoAccept = "never" THEN FALSE
     ELSE IF ~proposalMessage.stored THEN FALSE
     ELSE IF ~FormatServicesAgree(proposalMessage, agreeing) THEN FALSE
     ELSE IF proposalMessage.credentialPreview.present \/ offerMessage.credentialPreview.present
     THEN arePreviewAttributesEqual(proposalMessage.credentialPreview.attributes,
                                    offerMessage.credentialPreview.attributes)
     ELSE TRUE

\* Mutant: the format services of the inbound request are asked.
shouldAutoRespondToRequest_inbound(autoAcceptCredential, autoAcceptCredentials, requestMessage, offerMessage, agreeing) ==
  LET autoAccept == composeAutoAccept(autoAcceptCredential, autoAcceptCredentials)
  IN IF autoAccept = "always" THEN TRUE
     ELSE IF autoAccept = "never" THEN FALSE
     ELSE IF ~offerMessage.stored THEN FALSE
     ELSE FormatServicesAgree(requestMessage, agreeing)

shouldAutoRespondToRequest(autoAcceptCredential, autoAcceptCredentials, requestMessage, offerMessage, agreeing) ==
  LET autoAccept == composeAutoAccept(autoAcceptCredential, autoAcceptCredentials)
  IN IF autoAccept = "always" THEN TRUE
     ELSE IF autoAccept = "never" THEN FALSE
     ELSE IF ~offerMessage.stored THEN FALSE
     ELSE FormatServicesAgree(offerMessage, agreeing)

\* Mutant: the request message is not required to be stored.
shouldAutoRespondToCredential_unchecked(autoAcceptCredential, autoAcceptCredentials, credentialMessage, requestMessage, agreeing) ==
  LET autoAccept == composeAutoAccept(autoAcceptCredential, autoAcceptCredentials)
  IN IF autoAccept = "always" THEN TRUE
     ELSE IF autoAccept = "never" THEN FALSE
     ELSE FormatServicesAgree(requestMessage, agreeing)

shouldAutoRespondToCredential(autoAcceptCredential, autoAcceptCredentials, credentialMessage, requestMessage, agreeing) ==
  LET autoAccept == composeAutoAccept(autoAcceptCredential, autoAcceptCredentials)
  IN IF autoAccept = "always" THEN TRUE
     ELSE IF autoAccept = "never" THEN FALSE
     ELSE IF ~requestMessage.stored THEN FALSE
     ELSE FormatServicesAgree(requestMessage, agreeing)

NoDecision ==
  [step |-> "none", autoAcceptCredential |-> NoPolicy, autoAcceptCredentials |-> "never",
   message |-> NoAgentMessage, lastSentClass |-> "none", lastSent |-> NoAgentMessage,
   agreeing |-> {}, result |-> FALSE]

Decision(step, autoAcceptCredential, autoAcceptCredentials, message, lastSentClass, lastSent, agreeing, result) ==
  [step |-> step, autoAcceptCredential |-> autoAcceptCredential,
   autoAcceptCredentials |-> autoAcceptCredentials, message |-> message,
   lastSentClass |-> lastSentClass, lastSent |-> lastSent, agreeing |-> agreeing,
   result |-> result]

\* One call of each decision, on a record with policy r under module default
\* d, for inbound message m, with s what the message repository holds of the
\* class the function looks up and a the format services that agree.
AutoRespondToProposal(r, d, m, s, a) ==
  /\ autoRespond = NoDecision
  /\ autoRespond' = Decision("proposal", r, d, m, "offer", s, a,
                             shouldAutoRespondToProposal(r, d, m, s, a))
  /\ UNCHANGED <<pickupVars, credVars, processDidCommMessagesConcurrently, handlers, pulls, problemReport, _endpoints, assigned, history>>

AutoRespondToOffer(r, d, m, s, a) ==
  /\ autoRespond = NoDecision
  /\ autoRespond' = Decision("offer", r, d, m, "proposal", s, a,
                             shouldAutoRespondToOffer(r, d, m, s, a))
  /\ UNCHANGED <<pickupVars, credVars, processDidCommMessagesConcurrently, handlers, pulls, problemReport, _endpoints, assigned, history>>

AutoRespondToRequest(r, d, m, s, a) ==
  /\ autoRespond = NoDecision
  /\ autoRespond' = Decision("request", r, d, m, "offer", s, a,
                             shouldAutoRespondToRequest(r, d, m, s, a))
  /\ UNCHANGED <<pickupVars, credVars, processDidCommMessagesConcurrently, handlers, pulls, problemReport, _endpoints, assigned, history>>

AutoRespondToCredential(r, d, m, s, a) ==
  /\ autoRespond = NoDecision
  /\ autoRespond' = Decision("credential", r, d, m, "request", s, a,
                             shouldAutoRespondToCredential(r, d, m, s, a))
  /\ UNCHANGED <<pickupVars, credVars, processDidCommMessagesConcurrently, handlers, pulls, problemReport, _endpoints, assigned, history>>

\* The message createProblemReport returns: its thread decorator.
NoProblemReport == [threadId |-> NoThread, parentThreadId |-> NoThread]

\* Mutant: the record is moved to Abandoned by the call itself.
createProblemReport_abandoning(recordId) ==
  /\ problemReport' = [threadId |-> records[recordId].threadId,
                       parentThreadId |-> records[recordId].parentThreadId]
  /\ records' = [records EXCEPT ![recordId].state = "Abandoned"]
  /\ UNCHANGED <<didcommMessages, nextThread, lastCred>>
  /\ UNCHANGED <<pickupVars, processDidCommMessagesConcurrently, handlers, pulls, autoRespond,
                 _endpoints, assigned, history>>

\* createProblemReport: a new message with setThread of the record's threadId
\* and parentThreadId; the record is returned as it was handed in.
createProblemReport(recordId) ==
  /\ problemReport' = [threadId |-> records[recordId].threadId,
                       parentThreadId |-> records[recordId].parentThreadId]
  /\ UNCHANGED <<records, didcommMessages, nextThread, lastCred>>
  /\ UNCHANGED <<pickupVars, processDidCommMessagesConcurrently, handlers, pulls, autoRespond,
                 _endpoints, assigned, history>>

\* Records of the v1 protocol live in the same record store: one of them,
\* stored by that protocol in the state given, with no v2 message.
V1States ==
  {"ProposalSent", "ProposalReceived", "OfferSent", "OfferReceived",
   "RequestSent", "RequestReceived", "CredentialIssued", "CredentialReceived"}
IssuerStates == {"ProposalReceived", "OfferSent", "RequestReceived", "CredentialIssued"}

saveV1Record(threadId, connectionId, state) ==
  /\ save(CredOp("v1", NoInbound),
          [DidCommCredentialExchangeRecord(threadId, connectionId,
              IF state \in IssuerStates THEN "Issuer" ELSE "Holder", state)
             EXCEPT !.protocolVersion = "v1"],
          NoMessages)
  /\ UNCHANGED <<nextThread, pickupVars, restVars>>

----------------------------------------------------------------------------
(* DidCommModuleConfig: the endpoints option *)

MaxEndpoints == 2
MaxAssignments == 3

DID_COMM_TRANSPORT_QUEUE == "didcomm:transport/queue"
EndpointUrls == {"https://local-url.com", "https://new-local-url.com"}
EndpointLists == UNION {[1..n -> EndpointUrls] : n \in 0..MaxEndpoints}

\* options.endpoints is optional: absent, or a list that may be empty
NoEndpoints == [defined |-> FALSE, list |-> <<>>]
Endpoints(list) == [defined |-> TRUE, list |-> list]
EndpointOptions == {NoEndpoints} \cup {Endpoints(l) : l \in EndpointLists}

\* Mutant: only an absent list falls back to the queue endpoint.
endpoints_unchecked(field) ==
  IF ~field.defined THEN <<DID_COMM_TRANSPORT_QUEUE>> ELSE field.list

\* get endpoints()
endpoints(field) ==
  IF ~field.defined \/ Len(field.list) = 0 THEN <<DID_COMM_TRANSPORT_QUEUE>> ELSE field.list

\* set endpoints(endpoints)
set_endpoints(list) ==
  /\ _endpoints' = Endpoints(list)
  /\ assigned' = Append(assigned, Endpoints(list))
  /\ UNCHANGED <<pickupVars, credVars, processDidCommMessagesConcurrently, handlers, pulls,
                 autoRespond, problemReport, history>>

----------------------------------------------------------------------------
Init ==
  /\ queue = <<>>
  /\ nextUuid = 1
  /\ liveSessions = {}
  /\ last = NoOp
  /\ records = <<>>
  /\ didcommMessages = <<>>
  /\ nextThread = 1
  /\ lastCred = NoCredOp
  /\ processDidCommMessagesConcurrently = FALSE
  /\ handlers = [h \in HandlerSlots |-> IdleHandler]
  /\ pulls = [h \in HandlerSlots |-> IdlePull]
  /\ autoRespond = NoDecision
  /\ problemReport = NoProblemReport
  /\ _endpoints = NoEndpoints
  /\ assigned = <<NoEndpoints>>
  /\ history = NoHistory

\* The same start, with the configuration option either way.
ConcurrentInit ==
  /\ queue = <<>>
  /\ nextUuid = 1
  /\ liveSessions = {}
  /\ last = NoOp
  /\ records = <<>>
  /\ didcommMessages = <<>>
  /\ nextThread = 1
  /\ lastCred = NoCredOp
  /\ processDidCommMessagesConcurrently \in BOOLEAN
  /\ handlers = [h \in HandlerSlots |-> IdleHandler]
  /\ pulls = [h \in HandlerSlots |-> IdlePull]
  /\ autoRespond = NoDecision
  /\ problemReport = NoProblemReport
  /\ _endpoints = NoEndpoints
  /\ assigned = <<NoEndpoints>>
  /\ history = NoHistory

PickupNext ==
  \/ \E c \in Connections : AddMessage(c)
  \/ \E c \in Connections, r \in BOOLEAN, t \in PickupThreads, k \in RecipientKeys :
       processStatusRequest(c, r, t, k)
  \/ \E c \in Connections, r \in BOOLEAN, t \in PickupThreads, k \in RecipientKeys,
        l \in 0..MaxLimit : processDeliveryRequest(c, r, t, k, l)
  \/ \E c \in Connections, r \in BOOLEAN, t \in PickupThreads, ids \in IdLists :
       processMessagesReceived(c, r, t, ids)
  \/ \E c \in Connections, r \in BOOLEAN, t \in PickupThreads, l \in BOOLEAN :
       processLiveDeliveryChange(c, r, t, l)
  \/ \E c \in Connections, r \in BOOLEAN, k \in RecipientKeys :
       createDeliveryMessage(c, r, k, FALSE, <<>>)
  \/ \E c \in Connections, r \in BOOLEAN, k \in RecipientKeys, n \in 0..MaxMessages :
       /\ n <= Len(RowsOf(queue, c))
       /\ createDeliveryMessage(c, r, k, TRUE, SubSeq(RowsOf(queue, c), 1, n))

RecipientNext ==
  \/ \E c \in Connections, r \in BOOLEAN, t \in PickupThreads, k \in RecipientKeys,
        n \in 0..MaxCount, m \in 1..MaxBatch : V2StatusHandler(c, r, t, k, n, m)
  \/ \E c \in Connections, r \in BOOLEAN, t \in PickupThreads, ids \in IdLists :
       processDelivery(c, r, t, TRUE, ids)
  \/ \E c \in Connections, r \in BOOLEAN, t \in PickupThreads :
       processDelivery(c, r, t, FALSE, <<>>)

CredNext ==
  \/ \E c \in Connections, k \in KeyLists : createProposal(c, k)
  \/ \E c \in CredConnections, k \in KeyLists : createOffer(c, k)
  \/ \E c \in Connections, k \in KeyLists : createRequest(c, k)
  \/ \E m \in Inbound("proposal") : processProposal(m)
  \/ \E m \in Inbound("offer") : processOffer(m)
  \/ \E m \in Inbound("request") : processRequest(m)
  \/ \E m \in Inbound("credential") : processCredential(m)
  \/ \E m \in Inbound("ack") : processAck(m)
  \/ \E i \in 1..Len(records), k \in KeyLists : acceptProposal(i, k)
  \/ \E i \in 1..Len(records), k \in KeyLists : negotiateProposal(i, k)
  \/ \E i \in 1..Len(records), k \in KeyLists : acceptOffer(i, k)
  \/ \E i \in 1..Len(records), k \in KeyLists : negotiateOffer(i, k)
  \/ \E i \in 1..Len(records), k \in KeyLists : acceptRequest(i, k)
  \/ \E i \in 1..Len(records) : acceptCredential(i)

PickupSpec == Init /\ [][PickupNext]_vars

RecipientSpec == Init /\ [][RecipientNext]_vars

CredSpec == Init /\ [][CredNext]_vars

ConcurrentCredNext ==
  \/ \E c \in CredConnections, k \in KeyLists : createOffer(c, k)
  \/ \E h \in HandlerSlots : \E m \in Inbound("request") : processRequestBegin(h, m)
  \/ \E h \in HandlerSlots : processRequestEnd(h)

ConcurrentCredSpec == ConcurrentInit /\ [][ConcurrentCredNext]_vars

ConcurrentPickupNext ==
  \/ \E c \in Connections : QueueMessage(c)
  \/ \E h \in HandlerSlots, c \in Connections, r \in BOOLEAN, ids \in IdLists :
       processMessagesReceivedRemove(h, c, r, ids)
  \/ \E h \in HandlerSlots : processMessagesReceivedCount(h)
  \/ \E h \in HandlerSlots, c \in Connections, r \in BOOLEAN, l \in 0..MaxLimit :
       processDeliveryRequestTake(h, c, r, l)

\* One decision per behaviour.
DecisionNext ==
  \/ /\ autoRespond = NoDecision
     /\ \E r \in AutoAcceptCredential \cup {NoPolicy}, d \in AutoAcceptCredential,
           m \in AgentMessages, s \in FoundMessages, a \in SUBSET Range(credentialFormats) :
          AutoRespondToProposal(r, d, m, s, a)
  \/ /\ autoRespond = NoDecision
     /\ \E r \in AutoAcceptCredential \cup {NoPolicy}, d \in AutoAcceptCredential,
           m \in AgentMessages, s \in FoundMessages, a \in SUBSET Range(credentialFormats) :
          AutoRespondToOffer(r, d, m, s, a)
  \/ /\ autoRespond = NoDecision
     /\ \E r \in AutoAcceptCredential \cup {NoPolicy}, d \in AutoAcceptCredential,
           m \in AgentMessages, s \in FoundMessages, a \in SUBSET Range(credentialFormats) :
          AutoRespondToRequest(r, d, m, s, a)
  \/ /\ autoRespond = NoDecision
     /\ \E r \in AutoAcceptCredential \cup {NoPolicy}, d \in AutoAcceptCredential,
           m \in AgentMessages, s \in FoundMessages, a \in SUBSET Range(credentialFormats) :
          AutoRespondToCredential(r, d, m, s, a)

DecisionSpec == Init /\ [][DecisionNext]_vars

\* One message without a preview: the input of the decisions taken between
\* operations on the record store.
PlainMessage == [stored |-> TRUE, formats |-> <<"f1">>, credentialPreview |-> NoPreview]

ReadOnlyNext ==
  \/ \E c \in CredConnections, k \in KeyLists : createOffer(c, k)
  \/ \E m \in Inbound("offer") : processOffer(m)
  \/ \E recordId \in 1..Len(records) : createProblemReport(recordId)
  \/ /\ autoRespond = NoDecision
     /\ \E r \in AutoAcceptCredential \cup {NoPolicy}, s \in {PlainMessage, NoAgentMessage},
           a \in {{}, {"k1"}} :
          \/ AutoRespondToProposal(r, "contentApproved", PlainMessage, s, a)
          \/ AutoRespondToOffer(r, "contentApproved", PlainMessage, s, a)
          \/ AutoRespondToRequest(r, "contentApproved", PlainMessage, s, a)
          \/ AutoRespondToCredential(r, "contentApproved", PlainMessage, s, a)

ReadOnlySpec == Init /\ [][ReadOnlyNext]_vars

VersionNext ==
  \/ \E t \in KnownThreads, c \in CredConnections, st \in V1States : saveV1Record(t, c, st)
  \/ \E m \in Inbound("proposal") : processProposal(m)
  \/ \E m \in Inbound("offer") : processOffer(m)
  \/ \E m \in Inbound("request") : processRequest(m)
  \/ \E m \in Inbound("credential") : processCredential(m)
  \/ \E m \in Inbound("ack") : processAck(m)
  \/ \E i \in 1..Len(records), k \in KeyLists : acceptProposal(i, k)
  \/ \E i \in 1..Len(records), k \in KeyLists : negotiateProposal(i, k)
  \/ \E i \in 1..Len(records), k \in KeyLists : acceptOffer(i, k)
  \/ \E i \in 1..Len(records), k \in KeyLists : negotiateOffer(i, k)
  \/ \E i \in 1..Len(records), k \in KeyLists : acceptRequest(i, k)
  \/ \E i \in 1..Len(records) : acceptCredential(i)

VersionSpec == Init /\ [][VersionNext]_vars

\* Messages that declare up to MaxFormats formats, two of which the first
\* service supports and one that no service supports; format-key objects with
\* a key no service has.
MaxFormats == 3
MessageFormats == {"f1", "f1b", "f2", "fx"}
FormatLists == SeqsUpTo(MessageFormats, MaxFormats)
FormatKeyLists == {<<>>, <<"k1">>, <<"kx">>, <<"k2", "k1">>, <<"kx", "k2">>}

\* One exchange: a record is made (or the call fails), and a credential
\* arrives for the request sent.
FormatNext ==
  \/ /\ records = <<>>
     /\ \E c \in Connections, k \in FormatKeyLists : createProposal(c, k)
  \/ /\ records = <<>>
     /\ \E c \in Connections, k \in FormatKeyLists : createOffer(c, k)
  \/ /\ records = <<>>
     /\ \E c \in Connections, k \in FormatKeyLists : createRequest(c, k)
  \/ /\ records = <<>>
     /\ \E m \in InboundWith("proposal", FormatLists) : processProposal(m)
  \/ /\ records = <<>>
     /\ \E m \in InboundWith("offer", FormatLists) : processOffer(m)
  \/ /\ records = <<>>
     /\ \E m \in InboundWith("request", FormatLists) : processRequest(m)
  \/ /\ Len(records) = 1
     /\ records[1].state = "RequestSent"
     /\ \E m \in InboundWith("credential", FormatLists) : processCredential(m)

FormatSpec == Init /\ [][FormatNext]_vars

\* A batch pickup: messages are queued, the recipient's status request is
\* handled, and from then on each reply is delivered to the other party and
\* handled there, the batch size being the recipient's configuration.
LoopNext ==
  \/ /\ last.op \in {"none", "addMessage"}
     /\ \E c \in Connections : AddMessage(c)
  \/ /\ last.op \in {"none", "addMessage"}
     /\ \E c \in Connections, t \in PickupThreads, k \in RecipientKeys :
          processStatusRequest(c, TRUE, t, k)
  \/ /\ last.ok /\ last.reply.type = "status"
     /\ \E b \in 1..MaxBatch :
          V2StatusHandler(last.connectionId, TRUE, last.reply.threadId, last.reply.recipientKey,
                          last.reply.messageCount, b)
  \/ /\ last.ok /\ last.reply.type = "delivery-request"
     /\ \E t \in PickupThreads :
          processDeliveryRequest(last.connectionId, TRUE, t, last.reply.recipientKey,
                                 last.reply.limit)
  \/ /\ last.ok /\ last.reply.type = "delivery"
     /\ processDelivery(last.connectionId, TRUE, last.reply.threadId, TRUE,
                        last.reply.attachments)
  \/ /\ last.ok /\ last.reply.type = "messages-received"
     /\ \E t \in PickupThreads :
          processMessagesReceived(last.connectionId, TRUE, t, last.reply.messageIdList)

\* Every message sent is delivered and handled.
LoopSpec == Init /\ [][LoopNext]_vars /\ WF_vars(LoopNext)

RequestNext ==
  \/ \E c \in CredConnections, k \in WideKeyLists : createOffer(c, k)
  \/ \E m \in InboundWith("request", WideFormats) : processRequest(m)
  \/ \E a \in BOOLEAN, v \in BOOLEAN : RequestHandlerRespond(a, v)

RequestSpec == Init /\ [][RequestNext]_vars

ConcurrentPickupSpec == ConcurrentInit /\ [][ConcurrentPickupNext]_vars

----------------------------------------------------------------------------
(* Claims about message pickup *)

HolderOps == {"processStatusRequest", "processDeliveryRequest", "processMessagesReceived",
              "processLiveDeliveryChange", "createDeliveryMessage"}
Count(q, connectionId) == Len(RowsOf(q, connectionId))
Listed(o) == Range(o.in.messageIdList)
Without(rows, ids) == SelectSeq(rows, LAMBDA r : r.id \notin ids)

\* C1: a queued message leaves the queue only in a processMessagesReceived call whose
\* id list names it; every other holder operation leaves the queue as it found it.
C1_RemovedOnlyOnAck ==
  last.op \in HolderOps =>
    /\ \A i \in 1..Len(last.before) :
         last.before[i] \notin Range(queue) =>
           /\ last.op = "processMessagesReceived"
           /\ last.before[i].id \in Listed(last)
    /\ last.op # "processMessagesReceived" => queue = last.before

\* C2 as stated: the count of the connection drops by the length of the id list.
C2_CountDropsByListLength ==
  (last.op = "processMessagesReceived" /\ last.ready) =>
    /\ last.ok
    /\ \A i \in 1..Len(queue) : queue[i].id \notin Listed(last)
    /\ Count(queue, last.connectionId)
         = Count(last.before, last.connectionId) - Len(last.in.messageIdList)
    /\ last.reply.type = "status"
    /\ last.reply.messageCount = Count(queue, last.connectionId)
    /\ last.in.messageIdList = <<>> => queue = last.before

\* C2 amended: processMessagesReceived on a ready connection C leaves of C's queue
\* exactly the messages whose id is not listed, in their order; C's count drops by the
\* number of C's queued messages that the list names (not by the length of the list);
\* the status reply reports the count left; an empty list removes nothing.
C2_AckRemovesListedMessages ==
  (last.op = "processMessagesReceived" /\ last.ready) =>
    LET c == last.connectionId
        mine == RowsOf(last.before, c)
        named == {i \in 1..Len(mine) : mine[i].id \in Listed(last)}
    IN /\ last.ok
       /\ RowsOf(queue, c) = Without(mine, Listed(last))
       /\ Count(queue, c) = Len(mine) - Cardinality(named)
       /\ last.reply.type = "status"
       /\ last.reply.threadId = last.in.threadId
       /\ last.reply.messageCount = Count(queue, c)
       /\ last.in.messageIdList = <<>> => queue = last.before

\* an acknowledgement naming one queued and one unknown id: the count drops by one
C2_Witness ==
  /\ last.op = "processMessagesReceived" /\ last.ok
  /\ Len(last.in.messageIdList) = 2
  /\ Count(last.before, last.connectionId) = 2
  /\ last.reply.messageCount = 1

\* C3: two delivery requests in a row on one connection with one limit get the same
\* message ids in the same order.
C3_RedeliveryIsIdempotent ==
  [][(/\ last.op = "processDeliveryRequest" /\ last.ok
      /\ last'.op = "processDeliveryRequest" /\ last'.ok
      /\ last'.connectionId = last.connectionId
      /\ last'.in.limit = last.in.limit)
     => last'.reply.attachments = last.reply.attachments]_vars

\* C4: a delivery request with limit L on a ready connection is answered by a status
\* with count 0 when nothing is queued for the connection, and otherwise by a delivery
\* of the first n queued messages, 1 <= n <= L, attachment ids being message ids.
C4_DeliveryReply ==
  (last.op = "processDeliveryRequest" /\ last.ready) =>
    LET mine == RowsOf(last.before, last.connectionId)
        n == Len(last.reply.attachments)
    IN /\ last.ok
       /\ IF mine = <<>>
          THEN last.reply.type = "status" /\ last.reply.messageCount = 0
          ELSE /\ last.reply.type = "delivery"
               /\ 1 <= n /\ n <= last.in.limit /\ n <= Len(mine)
               /\ last.reply.attachments = IdsOf(SubSeq(mine, 1, n))

\* C5: for a status reporting n > 0 messages and a maximum batch size m, processStatus
\* returns a delivery request whose limit is the smaller of n and m.
C5_LimitIsCapped ==
  (last.op = "processStatus" /\ last.ready /\ last.in.messageCount > 0) =>
    LET n == last.in.messageCount
        m == last.maximumBatchSize
    IN /\ last.ok
       /\ last.reply.type = "delivery-request"
       /\ last.reply.limit <= m
       /\ last.reply.limit <= n
       /\ last.reply.limit \in {n, m}

\* more reported than one batch holds: the limit is the batch size
C5_Witness ==
  /\ last.op = "processStatus" /\ last.ok
  /\ last.in.messageCount = MaxBatch + 1
  /\ last.maximumBatchSize = MaxBatch
  /\ last.reply.limit = MaxBatch

\* C6: processStatus on a ready connection with messageCount 0 emits one
\* pickup-completed event for the connection and thread and the handler sends nothing;
\* with messageCount > 0 no pickup-completed event is emitted.  It does not fail.
C6_CompletionOnZero ==
  (last.op = "processStatus" /\ last.ready) =>
    /\ last.ok
    /\ last.in.messageCount = 0 =>
         /\ last.events = <<MessagePickupCompleted(last.connectionId, last.in.threadId)>>
         /\ last.reply.type = "none"
    /\ last.in.messageCount > 0 => last.events = <<>>

C6_Witness ==
  /\ last.op = "processStatus" /\ last.ok
  /\ last.in.messageCount = 0
  /\ Len(last.events) = 1
  /\ last.reply = NoMessage

----------------------------------------------------------------------------
(* Claims about the credential exchange *)

AcceptOps == {"acceptProposal", "acceptOffer", "acceptRequest", "acceptCredential"}
ProcessOps == {"processProposal", "processOffer", "processRequest",
               "processCredential", "processAck"}
ReplayOps == {"processProposal", "processOffer", "processRequest"}

\* The step each operation takes on an existing record: <<from, to>>.
Step(op) ==
  CASE op = "acceptProposal" -> <<"ProposalReceived", "OfferSent">>
    [] op = "acceptOffer" -> <<"OfferReceived", "RequestSent">>
    [] op = "acceptRequest" -> <<"RequestReceived", "CredentialIssued">>
    [] op = "acceptCredential" -> <<"CredentialReceived", "Done">>
    [] op = "processProposal" -> <<"OfferSent", "ProposalReceived">>
    [] op = "processOffer" -> <<"ProposalSent", "OfferReceived">>
    [] op = "processRequest" -> <<"OfferSent", "RequestReceived">>
    [] op = "processCredential" -> <<"RequestSent", "CredentialReceived">>
    [] op = "processAck" -> <<"CredentialIssued", "Done">>

Stored(o) == o.ok /\ o.recordId # 0

\* C7: an accept operation that returns was called on a record in the one
\* state it is valid from and left it in the next state: acceptProposal
\* ProposalReceived -> OfferSent, acceptOffer OfferReceived -> RequestSent,
\* acceptRequest RequestReceived -> CredentialIssued, acceptCredential
\* CredentialReceived -> Done.  From any other state the call throws, and a
\* call that throws stores nothing.
C7_AcceptFromExactState ==
  (Stored(lastCred) /\ lastCred.op \in AcceptOps) =>
     /\ lastCred.previousState = Step(lastCred.op)[1]
     /\ records[lastCred.recordId].state = Step(lastCred.op)[2]

C7_Witness ==
  /\ Stored(lastCred)
  /\ lastCred.op = "acceptCredential"
  /\ lastCred.previousState = "CredentialReceived"
  /\ records[lastCred.recordId].state = "Done"

\* C8: a process operation that returns for a record that existed before was
\* called with that record in the expected predecessor state and left it in
\* the received state: processProposal OfferSent -> ProposalReceived,
\* processOffer ProposalSent -> OfferReceived, processRequest OfferSent ->
\* RequestReceived, processCredential RequestSent -> CredentialReceived,
\* processAck CredentialIssued -> Done.  From any other state it throws, and
\* a call that throws stores nothing.
C8_ProcessFromPredecessor ==
  (Stored(lastCred) /\ lastCred.op \in ProcessOps /\ lastCred.previousState # "null") =>
     /\ lastCred.previousState = Step(lastCred.op)[1]
     /\ records[lastCred.recordId].state = Step(lastCred.op)[2]

C8_Witness ==
  /\ Stored(lastCred)
  /\ lastCred.op = "processAck"
  /\ lastCred.previousState = "CredentialIssued"
  /\ records[lastCred.recordId].state = "Done"

\* C9, as claimed: a proposal, offer or request that was processed before is
\* rejected when it arrives again.
C9_ReplayIsRejected ==
  (lastCred.op \in ReplayOps /\ lastCred.replay) => ~lastCred.ok

\* C9: a proposal, offer or request that was processed before never creates a
\* record when it arrives again; it is matched to an existing record and is
\* processed again only if that record is back in the predecessor state of the
\* message (a proposal after the issuer answered with an offer, an offer after
\* the holder answered with a proposal); a request is never processed twice.
C9_ReplayCreatesNoRecord ==
  (Stored(lastCred) /\ lastCred.op \in ReplayOps /\ lastCred.replay) =>
     /\ lastCred.previousState # "null"
     /\ lastCred.op # "processRequest"
     /\ lastCred.previousState = Step(lastCred.op)[1]

C9_Witness ==
  /\ Stored(lastCred)
  /\ lastCred.op = "processOffer"
  /\ lastCred.replay
  /\ lastCred.previousState = "ProposalSent"
  /\ Len(records) = 1

SamePair(i, j) ==
  /\ records[i].role = records[j].role
  /\ records[i].threadId = records[j].threadId
  /\ records[i].connectionId = records[j].connectionId

\* C10: no two exchange records of the same role have the same thread id and
\* the same connection id; in particular the record a process operation
\* creates shares role, thread and connection with no record that was there.
C10_UniqueThreadAndConnection ==
  /\ \A i, j \in 1..Len(records) : SamePair(i, j) => i = j
  /\ (Stored(lastCred) /\ lastCred.op \in ProcessOps /\ lastCred.previousState = "null") =>
        \A j \in 1..Len(records) : SamePair(lastCred.recordId, j) => j = lastCred.recordId

C10_Witness ==
  /\ Stored(lastCred)
  /\ lastCred.op = "processOffer"
  /\ lastCred.previousState = "null"
  /\ \E j \in 1..Len(records) :
       /\ j # lastCred.recordId
       /\ records[j].role = "Holder"
       /\ records[j].threadId = records[lastCred.recordId].threadId
       /\ records[j].connectionId # records[lastCred.recordId].connectionId

\* C13: a create, process or accept call that throws leaves the exchange
\* record store exactly as it was (no record added, no state or connection id
\* changed), whether it throws for want of a format service, for a wrong
\* state or for any other reason; a call that returns has stored its record.
C13_FailsAtomically ==
  [][/\ ~lastCred'.ok => records' = records
     /\ lastCred'.ok =>
          /\ lastCred'.recordId \in 1..Len(records')
          /\ records' # records]_vars

C13_Witness ==
  /\ ~lastCred.ok
  /\ Len(records) = MaxRecords
  /\ \E i \in 1..Len(records) : records[i].connectionId # NoConnection

----------------------------------------------------------------------------
(* Claims about handlers running at the same time *)

\* C11: no two handlers hold, at the same time, an inbound message of the same
\* thread that has passed the lookup and the state assertion and whose record
\* is not stored yet.
C11_TransitionsSerialized ==
  \A g, h \in HandlerSlots :
     (/\ g # h
      /\ handlers[g].pc = "asserted"
      /\ handlers[h].pc = "asserted")
       => handlers[g].message.threadId # handlers[h].message.threadId

\* C12: the count a messages-received reply reports is the size the
\* connection's queue had right after that handler's own removal: no queue
\* operation of another pickup handler came in between.
C12_ReplyCountsOwnRemainder ==
  \A h \in HandlerSlots :
     pulls[h].pc = "replied" => pulls[h].messageCount = pulls[h].left

----------------------------------------------------------------------------
(* Claims about the request handlers *)

HandledRecord == records[handlers[1].recordId]

C15_OnlyOfferedFormats ==
  \A i \in 1..Len(records) :
     (/\ didcommMessages[i]["credential"].role = "sender"
      /\ didcommMessages[i]["offer"].role = "sender")
       => Range(didcommMessages[i]["credential"].formats)
            \subseteq Range(didcommMessages[i]["offer"].formats)

----------------------------------------------------------------------------
(* Claims about connection-less records *)

\* C16: negotiateProposal and negotiateOffer never succeed on a record that
\* was created without a connection id.
C16_ConnectionlessNeverNegotiates ==
  (Stored(lastCred) /\ lastCred.op \in {"negotiateProposal", "negotiateOffer"})
     => ~records[lastCred.recordId].connectionless

----------------------------------------------------------------------------
(* Claims about the creation of records *)

Acceptable(m) == m.authentic /\ getFormatServicesFromMessage(m.formats) # <<>>

Created(role, state) ==
  /\ Len(records') = Len(records) + 1
  /\ \A i \in 1..Len(records) : records'[i] = records[i]
  /\ records'[Len(records')].role = role
  /\ records'[Len(records')].state = state
  /\ records'[Len(records')].protocolVersion = "v2"
  /\ lastCred'.ok
  /\ lastCred'.recordId = Len(records')
  /\ lastCred'.previousState = "null"

\* C17: each of processProposal, processOffer, processRequest and
\* processCredential, handed an authentic message with a supported format
\* that matches no record, adds one record in ProposalReceived, OfferReceived,
\* RequestReceived or CredentialReceived, and reports no previous state.
C17_ProcessCreatesWhenUnmatched ==
  [][/\ \A m \in Inbound("proposal") :
          (processProposal(m) /\ processProposalLookup(m) = {} /\ Acceptable(m))
             => Created("Issuer", "ProposalReceived")
     /\ \A m \in Inbound("offer") :
          (processOffer(m) /\ processOfferLookup(m) = {} /\ Acceptable(m))
             => Created("Holder", "OfferReceived")
     /\ \A m \in Inbound("request") :
          (processRequest(m) /\ processRequestLookup(m) = {} /\ Acceptable(m))
             => Created("Issuer", "RequestReceived")
     /\ \A m \in Inbound("credential") :
          (/\ processCredential(m)
           /\ findByProperties(m.threadId, "Holder", m.connectionId) = {}
           /\ Acceptable(m))
             => Created("Holder", "CredentialReceived")]_vars

CreateOps == {"createProposal", "createOffer", "createRequest"}

CreatedAs(op) ==
  CASE op = "createProposal" -> Created("Holder", "ProposalSent")
    [] op = "createOffer" -> Created("Issuer", "OfferSent")
    [] op = "createRequest" -> Created("Holder", "RequestSent")

\* C18: a createProposal, createOffer or createRequest that returns has
\* added exactly one record and changed no other: the new record is in
\* ProposalSent as Holder, OfferSent as Issuer or RequestSent as Holder, of
\* protocol version v2, its threadId is that of no record stored before, and
\* the change is reported with no previous state.
C18_CreateAddsOneRecord ==
  [][(lastCred'.ok /\ lastCred'.op \in CreateOps) =>
        /\ CreatedAs(lastCred'.op)
        /\ \A i \in 1..Len(records) :
              records[i].threadId # records'[Len(records')].threadId]_vars

C18_Witness ==
  /\ Stored(lastCred)
  /\ lastCred.op = "createRequest"
  /\ Len(records) = MaxRecords
  /\ records[1].role = "Issuer"

----------------------------------------------------------------------------
(* Claims about the auto-accept decisions *)

EffectivePolicy ==
  IF autoRespond.autoAcceptCredential # NoPolicy
  THEN autoRespond.autoAcceptCredential
  ELSE autoRespond.autoAcceptCredentials

LastSentClassOf(step) ==
  CASE step = "proposal" -> "offer"
    [] step = "offer" -> "proposal"
    [] step = "request" -> "offer"
    [] step = "credential" -> "request"

\* C19: each of the four decisions follows the record's policy when it has
\* one and the module default otherwise: true under Always and false under
\* Never whatever the message repository holds, and under ContentApproved
\* false when the message sent last (offer, proposal, offer, request) is not
\* stored.
C19_PolicyDecides ==
  autoRespond.step # "none" =>
    /\ EffectivePolicy = "always" => autoRespond.result
    /\ EffectivePolicy = "never" => ~autoRespond.result
    /\ autoRespond.lastSentClass = LastSentClassOf(autoRespond.step)
    /\ (EffectivePolicy = "contentApproved" /\ ~autoRespond.lastSent.stored)
         => ~autoRespond.result

C19_Witness ==
  /\ autoRespond.step = "credential"
  /\ autoRespond.autoAcceptCredential = NoPolicy
  /\ autoRespond.autoAcceptCredentials = "contentApproved"
  /\ ~autoRespond.lastSent.stored
  /\ ~autoRespond.result

\* C20: under ContentApproved, the decisions on a proposal and on an offer
\* are false when exactly one of the proposal and the offer carries a
\* preview.
C20_OneSidedPreviewRefused ==
  (/\ autoRespond.step \in {"proposal", "offer"}
   /\ EffectivePolicy = "contentApproved"
   /\ autoRespond.lastSent.stored
   /\ autoRespond.message.credentialPreview.present
        # autoRespond.lastSent.credentialPreview.present)
     => ~autoRespond.result

SameUpToOrder(first, second) ==
  /\ Len(first) = Len(second)
  /\ \E p \in Permutations(1..Len(first)) :
        \A i \in 1..Len(first) : second[i] = first[p[i]]

\* C21: under ContentApproved, with the message sent last stored and a
\* preview on both the proposal and the offer, the decisions on a proposal
\* and on an offer are false when the two attribute sets differ, and true
\* when one list is a reordering of the other and every format service of
\* the message sent last agrees.
C21_PreviewsMustMatch ==
  (/\ autoRespond.step \in {"proposal", "offer"}
   /\ EffectivePolicy = "contentApproved"
   /\ autoRespond.lastSent.stored
   /\ autoRespond.message.credentialPreview.present
   /\ autoRespond.lastSent.credentialPreview.present)
     => LET first == autoRespond.message.credentialPreview.attributes
            second == autoRespond.lastSent.credentialPreview.attributes
        IN /\ Range(first) # Range(second) => ~autoRespond.result
           /\ (/\ SameUpToOrder(first, second)
               /\ FormatServicesAgree(autoRespond.lastSent, autoRespond.agreeing))
                => autoRespond.result

C21_Witness ==
  /\ autoRespond.step = "offer"
  /\ EffectivePolicy = "contentApproved"
  /\ autoRespond.lastSent.stored
  /\ autoRespond.message.credentialPreview.present
  /\ autoRespond.lastSent.credentialPreview.present
  /\ Len(autoRespond.message.credentialPreview.attributes) = 2
  /\ autoRespond.message.credentialPreview.attributes
       # autoRespond.lastSent.credentialPreview.attributes
  /\ autoRespond.result

\* The format services that support a format of the message.
ServicesOf(message) ==
  {k \in Range(credentialFormats) :
     \E i \in 1..Len(message.formats) : supportsFormat(k, message.formats[i])}

\* C22: under ContentApproved with the message sent last stored, the decision
\* is false when a format service of that message disagrees, whatever the
\* inbound message carries; the decisions on a request and on a credential
\* are true when all of them agree, also when a format service that only the
\* inbound message names disagrees; and a missing message sent last gives
\* false.
C22_LastSentFormatsDecide ==
  (autoRespond.step # "none" /\ EffectivePolicy = "contentApproved") =>
     /\ ~autoRespond.lastSent.stored => ~autoRespond.result
     /\ autoRespond.lastSent.stored =>
          /\ ~(ServicesOf(autoRespond.lastSent) \subseteq autoRespond.agreeing)
               => ~autoRespond.result
          /\ (/\ autoRespond.step \in {"request", "credential"}
              /\ ServicesOf(autoRespond.lastSent) \subseteq autoRespond.agreeing)
               => autoRespond.result

C22_Witness ==
  /\ autoRespond.step = "request"
  /\ EffectivePolicy = "contentApproved"
  /\ autoRespond.lastSent.stored
  /\ ServicesOf(autoRespond.lastSent) = {"k1"}
  /\ ServicesOf(autoRespond.message) = {"k1", "k2"}
  /\ autoRespond.agreeing = {"k1"}
  /\ autoRespond.result

----------------------------------------------------------------------------
(* Claims about the operations that only read *)

\* C23: a step that takes an auto-accept decision or returns a problem
\* report leaves every record, every stored message and the last reported
\* state change as they were; the problem report returned carries the
\* threadId and the parentThreadId of a stored record.
C23_DecisionsAndReportsOnlyRead ==
  [][(autoRespond' # autoRespond \/ problemReport' # problemReport) =>
        /\ records' = records
        /\ didcommMessages' = didcommMessages
        /\ lastCred' = lastCred
        /\ problemReport' # problemReport =>
             \E i \in 1..Len(records) :
                /\ problemReport'.threadId = records[i].threadId
                /\ problemReport'.parentThreadId = records[i].parentThreadId]_vars

C23_Witness ==
  /\ problemReport.parentThreadId # NoThread
  /\ autoRespond.step # "none"
  /\ \E i \in 1..Len(records) :
        /\ records[i].threadId = problemReport.threadId
        /\ records[i].parentThreadId = problemReport.parentThreadId
        /\ records[i].state = "OfferReceived"

----------------------------------------------------------------------------
(* Claims about the binding of a connection *)

\* C24: a stored record without a connectionId gets one only in a step of
\* processProposal or processRequest, and every message whose processing is
\* that step came over that connection, on the record's thread, from a sender
\* that answers the out-of-band exchange (authentic);
\* no other operation, processAck included, binds one, and a failed call
\* leaves the connectionId absent.
C24_BoundOnlyAfterMatch ==
  [][\A i \in 1..Len(records) :
        (records[i].connectionId = NoConnection /\ records'[i].connectionId # NoConnection)
          => /\ lastCred'.ok
             /\ lastCred'.recordId = i
             /\ lastCred'.op \in {"processProposal", "processRequest"}
             /\ \A m \in Inbound("proposal") \cup Inbound("request") :
                   (processProposal(m) \/ processRequest(m))
                      => /\ m.authentic
                         /\ m.connectionId = records'[i].connectionId
                         /\ m.threadId = records[i].threadId]_vars

C24_Witness ==
  /\ Stored(lastCred)
  /\ lastCred.op = "processRequest"
  /\ lastCred.previousState = "OfferSent"
  /\ records[lastCred.recordId].connectionless
  /\ records[lastCred.recordId].connectionId # NoConnection

----------------------------------------------------------------------------
(* Claims about the order of the states *)

StepOf(state) ==
  CASE state \in {"ProposalSent", "ProposalReceived"} -> 1
    [] state \in {"OfferSent", "OfferReceived"} -> 2
    [] state \in {"RequestSent", "RequestReceived"} -> 3
    [] state \in {"CredentialIssued", "CredentialReceived"} -> 4
    [] state = "Done" -> 5
    [] OTHER -> 0

\* C25, as claimed: no operation moves a stored record to a state of an
\* earlier protocol step than the one it is in.
C25_StepNeverDecreases ==
  [][\A i \in 1..Len(records) :
        StepOf(records'[i].state) >= StepOf(records[i].state)]_vars

\* C25: the only moves to an earlier step are those of a negotiation, from
\* the offer step back to the proposal step: negotiateOffer takes
\* OfferReceived to ProposalSent and processProposal takes OfferSent to
\* ProposalReceived.
C25_StepDecreasesOnlyByNegotiation ==
  [][\A i \in 1..Len(records) :
        StepOf(records'[i].state) < StepOf(records[i].state)
          => /\ lastCred'.ok
             /\ lastCred'.recordId = i
             /\ \/ /\ lastCred'.op = "negotiateOffer"
                   /\ records[i].state = "OfferReceived"
                   /\ records'[i].state = "ProposalSent"
                \/ /\ lastCred'.op = "processProposal"
                   /\ records[i].state = "OfferSent"
                   /\ records'[i].state = "ProposalReceived"]_vars

C25_Witness ==
  /\ Stored(lastCred)
  /\ lastCred.op = "negotiateOffer"
  /\ lastCred.previousState = "OfferReceived"
  /\ records[lastCred.recordId].state = "ProposalSent"

----------------------------------------------------------------------------
(* Claims about records of another protocol version *)

OtherVersion(i) == records[i].protocolVersion # "v2"

\* C26: no step changes a stored record of another protocol version or its
\* stored messages; an accept or negotiate that returns was applied to a v2
\* record, and a process operation that returns was handed a message whose
\* lookup finds no record of another version.
C26_OtherVersionUntouched ==
  [][/\ \A i \in 1..Len(records) :
          OtherVersion(i) =>
            /\ records'[i] = records[i]
            /\ didcommMessages'[i] = didcommMessages[i]
     /\ lastCred'.ok =>
          /\ lastCred'.op \in AcceptOps \cup {"negotiateProposal", "negotiateOffer"}
               => ~OtherVersion(lastCred'.recordId)
          /\ lastCred'.op = "processProposal" =>
               \A m \in Inbound("proposal") :
                  processProposal(m) => \A i \in processProposalLookup(m) : ~OtherVersion(i)
          /\ lastCred'.op = "processOffer" =>
               \A m \in Inbound("offer") :
                  processOffer(m) => \A i \in processOfferLookup(m) : ~OtherVersion(i)
          /\ lastCred'.op = "processRequest" =>
               \A m \in Inbound("request") :
                  processRequest(m) => \A i \in processRequestLookup(m) : ~OtherVersion(i)
          /\ lastCred'.op = "processCredential" =>
               \A m \in Inbound("credential") :
                  processCredential(m) =>
                    \A i \in findByProperties(m.threadId, "Holder", m.connectionId) : ~OtherVersion(i)
          /\ lastCred'.op = "processAck" =>
               \A m \in Inbound("ack") :
                  processAck(m) =>
                    \A i \in findByProperties(m.threadId, "Issuer", m.connectionId) : ~OtherVersion(i)]_vars

C26_Witness ==
  /\ ~lastCred.ok
  /\ Len(records) = MaxRecords
  /\ OtherVersion(1)
  /\ records[1].state = "OfferReceived"
  /\ ~OtherVersion(2)

----------------------------------------------------------------------------
(* Claims about the pickup handlers' preconditions and the live sessions *)

ReadyOps == {"processStatusRequest", "processDeliveryRequest",
             "processMessagesReceived", "processLiveDeliveryChange"}

\* C27: a status request, delivery request, messages-received or
\* live-delivery-change handled on a connection that is not ready throws,
\* produces no reply and leaves the queue and the live sessions as they were.
C27_NotReadyFailsFast ==
  [][(last'.op \in ReadyOps /\ ~last'.ready) =>
        /\ ~last'.ok
        /\ last'.reply = NoMessage
        /\ queue' = queue
        /\ liveSessions' = liveSessions]_vars

C27_Witness ==
  /\ last.op = "processLiveDeliveryChange"
  /\ ~last.ready
  /\ ~last.ok
  /\ last.in.liveDelivery
  /\ last.connectionId \notin liveSessions
  /\ asyncGetAvailableMessageCount(queue, last.connectionId) > 0

\* C28: processDelivery on a ready connection throws the
\* ErrorProcessingAttachments problem report when the message has no
\* attachments at all, with no event and no acknowledgement; with an empty
\* attachment list it returns an acknowledgement with an empty id list.
C28_MissingAttachmentsFail ==
  (last.op = "processDelivery" /\ last.ready) =>
     /\ ~last.given =>
          /\ ~last.ok
          /\ last.error = "ErrorProcessingAttachments"
          /\ last.events = <<>>
          /\ last.reply = NoMessage
     /\ (last.given /\ last.in.attachments = <<>>) =>
          /\ last.ok
          /\ last.reply = V2MessagesReceivedMessage(<<>>)
          /\ last.events = <<>>

C28_Witness ==
  /\ last.op = "processDelivery"
  /\ last.ready
  /\ last.given
  /\ last.in.attachments = <<>>
  /\ last.reply.type = "messages-received"

\* C29: a live-delivery-change handled on a ready connection C leaves C
\* registered exactly when it enabled live delivery, and leaves every other
\* connection as it was; no other step changes the live sessions.  Enabling
\* when registered and disabling when not registered return normally.
C29_SessionFollowsLastChange ==
  [][IF last'.op = "processLiveDeliveryChange" /\ last'.ready
     THEN /\ last'.ok
          /\ \A c \in Connections :
                c \in liveSessions' <=>
                   IF c = last'.connectionId THEN last'.in.liveDelivery
                   ELSE c \in liveSessions
     ELSE liveSessions' = liveSessions]_vars

C29_Witness ==
  /\ last.op = "processLiveDeliveryChange"
  /\ last.ok
  /\ ~last.in.liveDelivery
  /\ liveSessions = Connections \ {last.connectionId}

----------------------------------------------------------------------------
(* Claim about the endpoints of DidCommModuleConfig *)

\* assignments to endpoints
EndpointNext ==
  /\ Len(assigned) < MaxAssignments
  /\ \E l \in EndpointLists : set_endpoints(l)

\* new DidCommModuleConfig(options): options.endpoints is kept as given
EndpointInit ==
  /\ queue = <<>> /\ nextUuid = 1 /\ liveSessions = {} /\ last = NoOp
  /\ records = <<>> /\ didcommMessages = <<>> /\ nextThread = 1 /\ lastCred = NoCredOp
  /\ processDidCommMessagesConcurrently = FALSE
  /\ handlers = [h \in HandlerSlots |-> IdleHandler]
  /\ pulls = [h \in HandlerSlots |-> IdlePull]
  /\ autoRespond = NoDecision /\ problemReport = NoProblemReport
  /\ _endpoints \in EndpointOptions
  /\ assigned = <<_endpoints>>
  /\ history = NoHistory

EndpointSpec == EndpointInit /\ [][EndpointNext]_vars

MostRecent == assigned[Len(assigned)]

\* C30: reading endpoints always returns a non-empty list: the list most
\* recently configured or assigned when that list is non-empty, and otherwise
\* exactly the queue transport endpoint.
C30_EndpointsNeverEmpty ==
  /\ endpoints(_endpoints) # <<>>
  /\ endpoints(_endpoints) =
       IF MostRecent.defined /\ MostRecent.list # <<>>
       THEN MostRecent.list
       ELSE <<"didcomm:transport/queue">>

C30_Witness ==
  /\ Len(assigned) = MaxAssignments
  /\ assigned[1].defined /\ assigned[1].list # <<>>
  /\ assigned[2].list # <<>>
  /\ MostRecent.list = <<>>
  /\ endpoints(_endpoints) = <<DID_COMM_TRANSPORT_QUEUE>>

----------------------------------------------------------------------------
(* Claims about negotiation rounds and the fields a record keeps *)

\* The counterpart's answer to the message a negotiation sent: a message of
\* the class given, on the thread and over the connection of the record, in a
\* format a configured service supports.
CounterpartAnswers(m, recordId) ==
  /\ m.threadId = records[recordId].threadId
  /\ m.connectionId = records[recordId].connectionId
  /\ getFormatServicesFromMessage(m.formats) # <<>>

\* C31: negotiateProposal returns only on a record in ProposalReceived and
\* leaves it in OfferSent, negotiateOffer returns only on a record in
\* OfferReceived and leaves it in ProposalSent; the counterpart's next
\* proposal (offer) on the thread is then processed on that same record,
\* which moves to ProposalReceived (OfferReceived), and no record is added.
C31_NegotiationRoundsRepeat ==
  [][/\ (lastCred'.ok /\ lastCred'.op = "negotiateProposal") =>
          /\ lastCred'.previousState = "ProposalReceived"
          /\ records'[lastCred'.recordId].state = "OfferSent"
          /\ Len(records') = Len(records)
     /\ (lastCred'.ok /\ lastCred'.op = "negotiateOffer") =>
          /\ lastCred'.previousState = "OfferReceived"
          /\ records'[lastCred'.recordId].state = "ProposalSent"
          /\ Len(records') = Len(records)
     /\ (lastCred.ok /\ lastCred.op = "negotiateProposal") =>
          \A m \in Inbound("proposal") :
             (CounterpartAnswers(m, lastCred.recordId) /\ processProposal(m)) =>
                /\ lastCred'.ok
                /\ lastCred'.recordId = lastCred.recordId
                /\ records'[lastCred.recordId].state = "ProposalReceived"
                /\ Len(records') = Len(records)
     /\ (lastCred.ok /\ lastCred.op = "negotiateOffer") =>
          \A m \in Inbound("offer") :
             (CounterpartAnswers(m, lastCred.recordId) /\ processOffer(m)) =>
                /\ lastCred'.ok
                /\ lastCred'.recordId = lastCred.recordId
                /\ records'[lastCred.recordId].state = "OfferReceived"
                /\ Len(records') = Len(records)]_vars

\* a record created by an inbound offer, negotiated, and answered by the
\* counterpart's next offer on the same record
C31_Witness ==
  /\ lastCred.ok
  /\ lastCred.op = "processOffer"
  /\ lastCred.previousState = "ProposalSent"
  /\ records[lastCred.recordId].state = "OfferReceived"
  /\ records[lastCred.recordId].threadId \in RemoteThreads
  /\ didcommMessages[lastCred.recordId]["proposal"].role = "sender"
  /\ Len(records) = 1

\* C32: every step keeps the records there are, in their places (a record's
\* place in the store is its id), each with the role, the threadId and the
\* protocolVersion it had.
C32_IdentityFieldsFixed ==
  [][/\ Len(records') >= Len(records)
     /\ \A i \in 1..Len(records) :
          /\ records'[i].role = records[i].role
          /\ records'[i].threadId = records[i].threadId
          /\ records'[i].protocolVersion = records[i].protocolVersion]_vars

\* a Holder record taken from an inbound offer to Done, next to another record
C32_Witness ==
  /\ Len(records) = 2
  /\ lastCred.ok
  /\ lastCred.op = "acceptCredential"
  /\ records[lastCred.recordId].role = "Holder"
  /\ records[lastCred.recordId].state = "Done"
  /\ records[lastCred.recordId].threadId \in RemoteThreads
  /\ records[lastCred.recordId].protocolVersion = "v2"

----------------------------------------------------------------------------
(* Claim about the format services of a message *)

FirstIndex(list, P(_)) == CHOOSE i \in 1..Len(list) : P(list[i]) /\ \A j \in 1..(i - 1) : ~P(list[j])

\* services is what formats resolve to: every service some format resolves
\* to, once, ordered by the first format that resolves to it.
ResolvesTo(formats, services) ==
  /\ \A i, j \in 1..Len(services) : i # j => services[i] # services[j]
  /\ Range(services) =
       {getFormatServiceForFormat(f) : f \in Range(formats)} \ {NoService}
  /\ \A i, j \in 1..Len(services) :
       i < j => FirstIndex(formats, LAMBDA f : getFormatServiceForFormat(f) = services[i])
                  < FirstIndex(formats, LAMBDA f : getFormatServiceForFormat(f) = services[j])

ResolvesKeysTo(formatKeys, services) ==
  /\ \A i, j \in 1..Len(services) : i # j => services[i] # services[j]
  /\ Range(services) =
       {getFormatServiceForFormatKey(k) : k \in Range(formatKeys)} \ {NoService}
  /\ \A i, j \in 1..Len(services) :
       i < j => FirstIndex(formatKeys, LAMBDA k : getFormatServiceForFormatKey(k) = services[i])
                  < FirstIndex(formatKeys, LAMBDA k : getFormatServiceForFormatKey(k) = services[j])

\* The process* a message of each kind is handed to.
Processes(m) ==
  \/ m.kind = "proposal" /\ processProposal(m)
  \/ m.kind = "offer" /\ processOffer(m)
  \/ m.kind = "request" /\ processRequest(m)
  \/ m.kind = "credential" /\ processCredential(m)

\* every check of a process* that comes before the format services are used
ReachesFormats(m) ==
  CASE m.kind = "proposal" -> Cardinality(processProposalLookup(m)) <= 1
    [] m.kind = "offer" -> Cardinality(processOfferLookup(m)) <= 1
    [] m.kind = "request" -> Cardinality(processRequestLookup(m)) <= 1
    [] m.kind = "credential" ->
         LET found == findByProperties(m.threadId, "Holder", m.connectionId)
         IN /\ Cardinality(found) = 1
            /\ LET recordId == CHOOSE i \in found : TRUE
               IN /\ findAgentMessage(recordId, "request", "sender")
                  /\ records[recordId].state = "RequestSent"
                  /\ assertConnectionOrOutOfBandExchange(m, records[recordId].connectionId)

\* The messages whose formats no configured service supports.
UnsupportedLists == {formats \in FormatLists : getFormatServicesFromMessage(formats) = <<>>}
UnsupportedInbound ==
  InboundWith("proposal", UnsupportedLists) \cup InboundWith("offer", UnsupportedLists)
    \cup InboundWith("request", UnsupportedLists)
    \cup InboundWith("credential", UnsupportedLists)

ClassOf(op) ==
  CASE op = "processProposal" -> "proposal"
    [] op = "processOffer" -> "offer"
    [] op = "processRequest" -> "request"
    [] op = "processCredential" -> "credential"

\* C33: the format services of a message are each service some declared
\* format resolves to, once, in the order of the first such format, formats
\* no service supports being skipped; a process* or create* that resolves
\* none fails and stores nothing, with the no-supported-formats error when
\* the call gets as far as resolving.
C33_ServicesOnceInOrder ==
  [][/\ (lastCred'.ok /\ lastCred'.op \in {"processProposal", "processOffer",
                                           "processRequest", "processCredential"}) =>
          LET formats == didcommMessages'[lastCred'.recordId][ClassOf(lastCred'.op)].formats
              services == getFormatServicesFromMessage(formats)
          IN /\ services # <<>>
             /\ ResolvesTo(formats, services)
     /\ (~lastCred'.ok /\ lastCred'.error = "none") =>
          \A m \in UnsupportedInbound : Processes(m) => ~ReachesFormats(m)
     /\ (lastCred'.op \in CreateOps \/ lastCred'.error # "none") =>
          \A c \in Connections, k \in FormatKeyLists :
             (createProposal(c, k) \/ createOffer(c, k) \/ createRequest(c, k)) =>
                LET services == getFormatServices(k)
                IN /\ ResolvesKeysTo(k, services)
                   /\ services = <<>> <=> lastCred'.error = "No supported formats"
     /\ lastCred'.error = "No supported formats" =>
          /\ ~lastCred'.ok
          /\ records' = records
          /\ didcommMessages' = didcommMessages]_vars

\* a stored credential that declared a format of the second service between
\* two formats of the first
C33_Witness ==
  /\ lastCred.ok
  /\ lastCred.op = "processCredential"
  /\ didcommMessages[lastCred.recordId]["credential"].formats = <<"f1", "f2", "f1b">>
  /\ getFormatServicesFromMessage(<<"f1", "f2", "f1b">>) = <<"k1", "k2">>
  /\ getFormatServicesFromMessage(<<"fx">>) = <<>>

----------------------------------------------------------------------------
(* Claims about whose messages an acknowledgement removes *)

\* C34: a messages-received acknowledgement processed on a connection leaves
\* the queued messages, and so the available message count, of every other
\* connection as they were.
C34_AckLeavesOtherQueues ==
  [][(last'.op = "processMessagesReceived" /\ last'.ready) =>
        \A d \in Connections \ {last'.connectionId} :
           /\ RowsOf(queue', d) = RowsOf(queue, d)
           /\ asyncGetAvailableMessageCount(queue', d)
                = asyncGetAvailableMessageCount(queue, d)]_vars

\* C35: a record that has a connectionId keeps it: no step changes it to
\* another value or clears it.
C35_ConnectionIdKept ==
  [][\A i \in 1..Len(records) :
        records[i].connectionId # NoConnection =>
           records'[i].connectionId = records[i].connectionId]_vars

----------------------------------------------------------------------------
(* Claim about the end of a batch pickup *)

PickupStarted == last.op = "processStatusRequest" /\ last.ok
PickupCompleted ==
  /\ last.op = "processStatus"
  /\ last.events = <<MessagePickupCompleted(last.connectionId, last.in.threadId)>>
QueuedFor(connectionId) == {row.id : row \in {r \in history.added : r.connectionId = connectionId}}

\* C36: a pickup started by a status request leads to the recipient's
\* pickup-completed event; when it is emitted the holder's queue for the
\* connection is empty and every message queued for it was handed to the
\* recipient; every delivery request of the pickup asks for the smaller of
\* the reported count and the batch size, at least 1, and that many messages
\* leave the queue when it is handled.
C36_BatchPickupTerminates ==
  /\ PickupStarted ~> PickupCompleted
  /\ [](PickupCompleted =>
          /\ RowsOf(queue, last.connectionId) = <<>>
          /\ QueuedFor(last.connectionId) \subseteq history.received)
  /\ [][/\ (last'.op = "processStatus" /\ last'.reply.type = "delivery-request") =>
             /\ last'.reply.limit = Min(last'.in.messageCount, last'.maximumBatchSize)
             /\ last'.reply.limit >= 1
        /\ last'.op = "processDeliveryRequest" =>
             /\ last'.ok
             /\ Len(RowsOf(queue, last'.connectionId)) - Len(RowsOf(queue', last'.connectionId))
                  = last'.in.limit
             /\ Len(last'.reply.attachments) = last'.in.limit]_vars

\* a pickup of two messages with batch size 1, completed after two rounds
C36_Witness ==
  /\ PickupCompleted
  /\ Cardinality(QueuedFor(last.connectionId)) = 2
  /\ QueuedFor(last.connectionId) \subseteq history.received
  /\ last.maximumBatchSize = 1
  /\ RowsOf(queue, last.connectionId) = <<>>

----------------------------------------------------------------------------
(* Claim about an offer carried through to the acknowledgement *)

\* The records of the two parties of one exchange over one connection.
Counterparts(i, j) ==
  /\ i \in 1..Len(records) /\ j \in 1..Len(records)
  /\ records[i].role = "Issuer" /\ records[j].role = "Holder"
  /\ records[i].threadId = records[j].threadId
  /\ records[i].connectionId = records[j].connectionId
  /\ records[i].connectionId # NoConnection

\* m is the message of the class given that the party of record i sent.
Carries(m, i, messageClass) ==
  /\ didcommMessages[i][messageClass].role = "sender"
  /\ m.threadId = records[i].threadId
  /\ m.connectionId = records[i].connectionId
  /\ (messageClass # "ack" => m.formats = didcommMessages[i][messageClass].formats)

Did(op) == lastCred.ok /\ lastCred.op = op
Does(op, recordId, state) ==
  /\ lastCred'.ok
  /\ lastCred'.op = op
  /\ lastCred'.recordId = recordId
  /\ records'[recordId].state = state

\* C37: each operation of the sequence createOffer, processOffer, acceptOffer,
\* processRequest, acceptRequest, processCredential, acceptCredential,
\* processAck, applied after the one before it to the message that one sent,
\* returns and leaves its record in the next state; after processAck the
\* records of both parties are in Done with the same threadId.
C37_OfferToAck ==
  [][/\ (Did("createOffer") /\ records[lastCred.recordId].connectionId # NoConnection) =>
          \A i \in {lastCred.recordId}, j \in {Len(records) + 1}, m \in Inbound("offer") :
             (Carries(m, i, "offer") /\ processOffer(m)) =>
                /\ Does("processOffer", j, "OfferReceived")
                /\ Counterparts(i, j)'
     /\ (Did("processOffer") /\ lastCred.previousState = "null") =>
          \A i \in 1..Len(records), k \in KeyLists :
             (/\ Counterparts(i, lastCred.recordId)
              /\ records[i].state = "OfferSent"
              /\ acceptOffer(lastCred.recordId, k)) =>
                Does("acceptOffer", lastCred.recordId, "RequestSent")
     /\ Did("acceptOffer") =>
          \A i \in 1..Len(records), m \in Inbound("request") :
             (/\ Counterparts(i, lastCred.recordId)
              /\ records[i].state = "OfferSent"
              /\ Carries(m, lastCred.recordId, "request")
              /\ processRequest(m)) =>
                Does("processRequest", i, "RequestReceived")
     /\ Did("processRequest") =>
          \A j \in 1..Len(records), k \in KeyLists :
             (/\ Counterparts(lastCred.recordId, j)
              /\ records[j].state = "RequestSent"
              /\ acceptRequest(lastCred.recordId, k)) =>
                Does("acceptRequest", lastCred.recordId, "CredentialIssued")
     /\ Did("acceptRequest") =>
          \A j \in 1..Len(records), m \in Inbound("credential") :
             (/\ Counterparts(lastCred.recordId, j)
              /\ records[j].state = "RequestSent"
              /\ Carries(m, lastCred.recordId, "credential")
              /\ processCredential(m)) =>
                Does("processCredential", j, "CredentialReceived")
     /\ Did("processCredential") =>
          \A i \in 1..Len(records) :
             (/\ Counterparts(i, lastCred.recordId)
              /\ records[i].state = "CredentialIssued"
              /\ acceptCredential(lastCred.recordId)) =>
                Does("acceptCredential", lastCred.recordId, "Done")
     /\ Did("acceptCredential") =>
          \A i \in 1..Len(records), j \in {lastCred.recordId}, m \in Inbound("ack") :
             (/\ Counterparts(i, j)
              /\ records[i].state = "CredentialIssued"
              /\ m.threadId = records[i].threadId
              /\ m.connectionId = records[i].connectionId
              /\ processAck(m)) =>
                /\ Does("processAck", i, "Done")
                /\ records'[j].state = "Done"
                /\ Counterparts(i, j)']_vars

\* the whole sequence has run: the offer was created here and the
\* acknowledgement processed last
C37_Witness ==
  /\ Did("processAck")
  /\ Len(records) = 2
  /\ Counterparts(1, 2)
  /\ records[1].state = "Done" /\ records[2].state = "Done"
  /\ records[1].threadId \notin RemoteThreads
  /\ didcommMessages[1]["proposal"].role = "none"
  /\ didcommMessages[2]["offer"].role = "receiver"
  /\ didcommMessages[2]["request"].role = "sender"
  /\ didcommMessages[1]["credential"].role = "sender"
  /\ didcommMessages[2]["credential"].role = "receiver"

----------------------------------------------------------------------------
(* Claim about the states each role can be in *)

StatesOfHolder ==
  {"ProposalSent", "OfferReceived", "RequestSent", "CredentialReceived", "Done", "Abandoned"}
StatesOfIssuer ==
  {"ProposalReceived", "OfferSent", "RequestReceived", "CredentialIssued", "Done", "Abandoned"}

\* C38: a record with role Holder is in one of ProposalSent, OfferReceived,
\* RequestSent, CredentialReceived, Done, Abandoned and a record with role
\* Issuer in one of ProposalReceived, OfferSent, RequestReceived,
\* CredentialIssued, Done, Abandoned.
C38_StatesFollowRole ==
  \A i \in 1..Len(records) :
     /\ records[i].role \in {"Holder", "Issuer"}
     /\ records[i].role = "Holder" => records[i].state \in StatesOfHolder
     /\ records[i].role = "Issuer" => records[i].state \in StatesOfIssuer

\* an accept operation, which looks at the state only, has just moved an
\* Issuer record next to a Holder record of the same thread
C38_Witness ==
  /\ Len(records) = 2
  /\ lastCred.ok
  /\ lastCred.op = "acceptRequest"
  /\ records[lastCred.recordId].role = "Issuer"
  /\ records[lastCred.recordId].state = "CredentialIssued"
  /\ \E j \in 1..Len(records) :
        /\ records[j].role = "Holder"
        /\ records[j].state = "RequestSent"
        /\ records[j].threadId = records[lastCred.recordId].threadId

----------------------------------------------------------------------------
(* Claim about a pickup scoped to a recipientKey *)

\* C39: in a pickup whose status request carried the recipientKey K, every
\* delivery request the recipient sends carries K.
C39_PickupStaysScoped ==
  (/\ history.scope # NoKey
   /\ last.ok
   /\ last.op = "processStatus"
   /\ last.reply.type = "delivery-request") =>
     last.reply.recipientKey = history.scope

----------------------------------------------------------------------------
(* Claim about the events and the acknowledgement of a delivery *)

\* the rows the operation removed from the queue it found
Deleted == {row.id : row \in Range(last.before)} \ {row.id : row \in Range(queue)}

\* C40: processDelivery on a delivery with attachments a1..an emits one
\* message-received event per attachment, in attachment order, and returns an
\* acknowledgement whose id list is the attachment ids in the same order; every
\* id the holder is given in that acknowledgement, and every row it deletes on
\* it, is the id of a message the recipient emitted an event for.
C40_AckListsDeliveredIds ==
  /\ (last.op = "processDelivery" /\ last.ok) =>
        /\ Len(last.events) = Len(last.in.attachments)
        /\ \A i \in 1..Len(last.in.attachments) :
              /\ last.events[i].type = "AgentMessageReceived"
              /\ last.events[i].id = last.in.attachments[i]
        /\ last.reply.type = "messages-received"
        /\ last.reply.messageIdList = last.in.attachments
  /\ (last.op = "processMessagesReceived" /\ last.ok) =>
        /\ Range(last.in.messageIdList) \subseteq history.received
        /\ Deleted \subseteq history.received

\* the acknowledgement of a delivery of two messages has reached the holder
C40_Witness ==
  /\ last.op = "processMessagesReceived"
  /\ last.ok
  /\ Len(last.in.messageIdList) = 2
  /\ last.in.messageIdList[1] # last.in.messageIdList[2]
  /\ Range(last.in.messageIdList) \subseteq history.received

====
